---- MODULE Spec2Model ----
(***************************************************************************)
(* Verification model of the orchestration core of geovera-image-generator *)
(* (src/modal_app.py, src/modal_character_agent.py):                        *)
(*   - the batch training job store      (_train_all_start/_train_all_poll) *)
(*   - the daily budget governor         (_budget_consume)                  *)
(*   - the quality-gated angle loop      (_run_multi_angle_core)            *)
(*   - the chat / conversation engine    (character_agent_endpoint)         *)
(*   - one budget-aware LLM turn         (invoke_with_role)                 *)
(*   - the persona store                 (reflect, evaluate)                *)
(* Each component has its own specification (SpecJob, SpecBudget,           *)
(* SpecAngle, SpecDialogue, SpecChat, SpecTurn, SpecResearch,              *)
(* SpecReflect); the variables of the other components stay at their        *)
(* initial values.                                                          *)
(***************************************************************************)
EXTENDS Integers, Sequences, FiniteSets, TLC

VARIABLES
    \* ---- batch job store ----
    characters,   \* the (capped) characters list closed over by the job
    jobsDict,     \* _jobs_dict[job_id]: NoJob or the job record
    startResp,    \* what _train_all_start returned
    worker,       \* per index: "idle" | "running" | "done"  (train_one futures)
    future,       \* per index: the dict train_one returned
    completed,    \* indices in the order as_completed yields them
    collected,    \* how many completed futures the background loop consumed
    bgpc,         \* background thread: "none" | "wait" | "write" | "exit" | "died"
    current,      \* local `current` of run_training_background
    poll,         \* what the last _train_all_poll of the job returned
    parallel,     \* ghost: an item finished while another finished item was not
                  \*        yet in the job record
    \* ---- budget governor ----
    budget,       \* table api_budget: (api_name, budget_date) -> row or NoRow
    today,        \* date.today()
    cpc,          \* per caller: position inside _budget_consume
    cloc,         \* per caller: locals api_name, today, row, limit
    cret,         \* per caller: its last _budget_consume returned "True" | "False"
    granted,      \* ghost: per (api, date), returns of True at 2546 / 2558
    failOpens,    \* ghost: returns of True from the except branch (2561)
    calls,        \* ghost: number of _budget_consume calls started
    \* ---- quality-gated angle loop ----
    item,         \* the request of _run_multi_angle_core
    apc,          \* generator position: "idle" | "unit" | "gen" | "qc" | "yield" | "end"
    angle_subset, \* the angle indices the loop iterates over
    upos,         \* number of units the loop is through with
    attempt,      \* loop variable of `for attempt in range(2)`
    img_b64,      \* image of the current attempt
    angle_seed,   \* seed of the current attempt
    best_img,     \* locals of the unit ...
    best_seed,
    qc_passed,
    qc_reason,
    total_generated,
    events,       \* the events yielded so far: kind and angle_idx of each
    lastEvent,    \* the last event yielded, in full
    gens,         \* ghost: number of pipe_img2img calls for the current unit
    evFor,        \* ghost: per unit, number of angle events yielded
    qcHist,       \* ghost: outcomes of the quality checks of the current unit
    \* ---- chat and conversation endpoints ----
    msgTable,     \* table messages: per conversation id, the rows in insertion order
    convTable,    \* table conversations: per conversation id, its row
    dreq,         \* the /conversation request
    dpc,          \* its position: "idle" | "rejected" | "router" | "character" |
                  \*               "aborted" | "finished" | "responded"
    dstate,       \* the MultiState of the graph
    dresp,        \* the ConversationResponse
    chatpc,       \* a /chat request: "idle" | "llm"
    chatreq,      \* its conversation_id (0: none), save_to_db, len(history)
    chats,        \* ghost: number of /chat requests started
    \* ---- one invoke_with_role turn ----
    tpc,          \* position inside invoke_with_role
    treq,         \* char roles, caller_llm, sb, the search credentials, the query
    role_cfg,     \* what resolve_role_llm[_with_budget] returned
    secondary_allowed,
    search_context, \* the tools whose results were added to search_context
    tret,         \* (reply, llm_label) returned, or the exception raised
    consumed,     \* ghost: the _budget_consume calls of the turn, api and return
    toolCalls,    \* ghost: the search tool requests sent, tool and outcome
    invoked,      \* ghost: the llm.invoke calls of the turn, config and input
    budget0,      \* ghost: table api_budget when the turn started
    \* ---- persona store: /reflect and /evaluate ----
    persona,      \* the row of table characters: skillsets, mindsets, knowledge_notes
    rpc,          \* a /reflect request: "idle" | "extract" | "update" | "save"
    rstate,       \* its ReflectState (character, llm_cfg, diff_summary, before, after)
    rret,         \* how the last /reflect request ended
    rinvoked,     \* ghost: the llm.invoke calls of the /reflect request, their config
    rbudget0,     \* ghost: table api_budget when the /reflect request started
    noteSeq,      \* ghost: the next note text not used so far
    ops           \* ghost: number of /reflect and /evaluate requests started

jobVars == <<characters, jobsDict, startResp, worker, future, completed,
             collected, bgpc, current, poll, parallel>>

budgetVars == <<budget, today, cpc, cloc, cret, granted, failOpens, calls>>

angleVars == <<item, apc, angle_subset, upos, attempt, img_b64, angle_seed,
               best_img, best_seed, qc_passed, qc_reason, total_generated,
               events, lastEvent, gens, evFor, qcHist>>

chatVars == <<msgTable, convTable, dreq, dpc, dstate, dresp, chatpc, chatreq, chats>>

turnVars == <<tpc, treq, role_cfg, secondary_allowed, search_context, tret,
              consumed, toolCalls, invoked, budget0>>

reflectVars == <<persona, rpc, rstate, rret, rinvoked, rbudget0, noteSeq, ops>>

vars == <<jobVars, budgetVars, angleVars, chatVars, turnVars, reflectVars>>

\* what the actions of one component leave alone
nonJobVars    == <<budgetVars, angleVars, chatVars, turnVars, reflectVars>>
nonBudgetVars == <<jobVars, angleVars, chatVars, turnVars, reflectVars>>
nonAngleVars  == <<jobVars, budgetVars, chatVars, turnVars, reflectVars>>
nonChatVars   == <<jobVars, budgetVars, angleVars, turnVars, reflectVars>>
\* a turn writes the table api_budget and nothing else outside its own variables
nonTurnVars   == <<jobVars, angleVars, chatVars, reflectVars,
                   today, cpc, cloc, cret, granted, failOpens, calls>>
\* so does /evaluate
nonReflectVars == <<jobVars, angleVars, chatVars, turnVars,
                    today, cpc, cloc, cret, granted, failOpens, calls>>

None == "None"

(***************************************************************************)
(* Batch job store: _train_all_start, train_one, run_training_background    *)
(***************************************************************************)
MaxSubmit == 5                    \* longest characters list submitted
MaxPolled == 2                    \* longest characters list of a polled batch
CharCap   == 4                    \* `characters[:4]`
NoName    == "<absent>"           \* the "name" key is missing from the char
NoJob     == [status |-> "absent"]

\* names a submitted character may carry: an explicit name (which is also the
\* default name of index 1) or none
SubmitNames == {"char1", NoName}

DefaultNames == <<"char0", "char1", "char2", "char3">>

gpu_assignment == <<"H100", "H100", "H200", "H200">>

Min(a, b) == IF a < b THEN a ELSE b

\* c.get("name", f"char{i}") with i the 0-based index; p = i + 1
CharName(chars, p) == IF chars[p] = NoName THEN DefaultNames[p] ELSE chars[p]

name_order(chars) == [p \in 1..Len(chars) |-> CharName(chars, p)]

\* outcomes of the POST to the training endpoint, as train_one sees them
BackendOutcomes == {"ok", "declined", "raised"}

\* the dict train_one returns for the character at position p (idx = p - 1)
train_one(chars, p, outcome) ==
    [ name  |-> CharName(chars, p),
      gpu   |-> gpu_assignment[Min(p, 4)],
      ok    |-> (outcome = "ok"),
      error |-> CASE outcome = "ok"       -> None
                  [] outcome = "declined" -> "No frames provided"
                  [] OTHER                -> "exception",
      idx   |-> p - 1 ]          \* ghost: which submitted character this is

\* key=lambda r: name_order.index(r["name"]) if r["name"] in name_order else 99
SortKey(order, r) ==
    IF \E p \in 1..Len(order) : order[p] = r.name
    THEN (CHOOSE p \in 1..Len(order) :
              /\ order[p] = r.name
              /\ \A q \in 1..(p - 1) : order[q] # r.name) - 1
    ELSE 99

\* one step of a stable sort: r goes after every element whose key is <= its own
InsertStable(order, sorted, r) ==
    LET k == Cardinality({q \in 1..Len(sorted) :
                            SortKey(order, sorted[q]) <= SortKey(order, r)})
    IN  SubSeq(sorted, 1, k) \o <<r>> \o SubSeq(sorted, k + 1, Len(sorted))

RECURSIVE SortFrom(_, _, _)
SortFrom(order, sorted, rest) ==
    IF rest = <<>> THEN sorted
    ELSE SortFrom(order, InsertStable(order, sorted, Head(rest)), Tail(rest))

\* results.sort(key=...) : list.sort is stable
SortResults(order, results) == SortFrom(order, <<>>, results)

OkCount(results) == Cardinality({q \in 1..Len(results) : results[q].ok})

RECURSIVE SeqsUpTo(_, _)
SeqsUpTo(S, n) ==
    IF n = 0 THEN {<<>>}
    ELSE LET shorter == SeqsUpTo(S, n - 1)
         IN  shorter \cup {Append(s, x) : s \in {t \in shorter : Len(t) = n - 1}, x \in S}

\* future.result() of a train_one call that raised
Raised == [raised |-> TRUE]
\* a future that is not done, the local `current` when it is not bound
NoFuture  == [pending |-> TRUE]
NoCurrent == [status |-> "unbound"]
\* no poll yet
NoPoll == [ok |-> FALSE, error |-> "no poll"]

JobInit ==
    /\ characters = <<>>
    /\ jobsDict = NoJob
    /\ startResp = [ok |-> FALSE, error |-> "not called"]
    /\ worker = [p \in 1..CharCap |-> "idle"]
    /\ future = [p \in 1..CharCap |-> NoFuture]
    /\ completed = <<>>
    /\ collected = 0
    /\ bgpc = "none"
    /\ current = NoCurrent
    /\ poll = NoPoll
    /\ parallel = FALSE

\* _train_all_start(item): reject an empty list, cap at 4, create the job
\* record, start the background thread, which submits one train_one per char
TrainAllStart(chars) ==
    /\ bgpc = "none"
    /\ UNCHANGED <<nonJobVars, poll, parallel>>
    /\ IF chars = <<>>
       THEN /\ startResp' = [ok |-> FALSE, error |-> "No characters provided"]
            /\ UNCHANGED <<characters, jobsDict, worker, bgpc>>
       ELSE LET capped == SubSeq(chars, 1, Min(Len(chars), CharCap)) IN
            /\ characters' = capped
            /\ jobsDict' = [ status     |-> "running",
                             characters |-> [p \in 1..Len(capped) |->
                                               [name |-> CharName(capped, p),
                                                gpu  |-> gpu_assignment[Min(p, 4)]]],
                             results    |-> <<>>,
                             message    |-> [kind |-> "started", n |-> Len(capped)] ]
            /\ startResp' = [ok |-> TRUE, job_id |-> "job_1",
                             characters |-> name_order(capped)]
            /\ worker' = [p \in 1..CharCap |->
                            IF p <= Len(capped) THEN "running" ELSE "idle"]
            /\ bgpc' = "wait"
    /\ UNCHANGED <<future, completed, collected, current>>

\* one train_one call returns (or its exception is turned into a record)
TrainOneReturn(p, outcome) ==
    /\ worker[p] = "running"
    /\ UNCHANGED <<nonJobVars, poll>>
    /\ parallel' = (parallel \/ Len(completed) > collected)
    /\ worker' = [worker EXCEPT ![p] = "done"]
    /\ future' = [future EXCEPT ![p] = train_one(characters, p, outcome)]
    /\ completed' = Append(completed, p)
    /\ UNCHANGED <<characters, jobsDict, startResp, collected, bgpc, current>>

\* train_one raises before its try block: len() of a "frames" value that has
\* no length (the key present with null or a number); the future holds the
\* exception
TrainOneRaise(p) ==
    /\ worker[p] = "running"
    /\ UNCHANGED <<nonJobVars, poll>>
    /\ parallel' = (parallel \/ Len(completed) > collected)
    /\ worker' = [worker EXCEPT ![p] = "done"]
    /\ future' = [future EXCEPT ![p] = Raised]
    /\ completed' = Append(completed, p)
    /\ UNCHANGED <<characters, jobsDict, startResp, collected, bgpc, current>>

\* variant of CollectRead: the loop works on the record as the job started with
\* it (the read is not repeated for each finished item)
CollectRead_StaleSnapshot ==
    /\ bgpc = "wait"
    /\ UNCHANGED <<nonJobVars, poll, parallel>>
    /\ collected < Len(completed)
    /\ IF future[completed[collected + 1]] = Raised
       THEN /\ bgpc' = "died"
            /\ UNCHANGED current
       ELSE /\ current' = [jobsDict EXCEPT !.results = <<>>]
            /\ bgpc' = "write"
    /\ UNCHANGED <<characters, jobsDict, startResp, worker, future, completed, collected>>

\* as_completed yields the next finished future; char_result = future.result()
\* re-raises what train_one raised, outside the try, and the thread ends;
\* otherwise current = _jobs_dict[job_id]
CollectRead ==
    /\ bgpc = "wait"
    /\ UNCHANGED <<nonJobVars, poll, parallel>>
    /\ collected < Len(completed)
    /\ IF future[completed[collected + 1]] = Raised
       THEN /\ bgpc' = "died"
            /\ UNCHANGED current
       ELSE /\ current' = jobsDict
            /\ bgpc' = "write"
    /\ UNCHANGED <<characters, jobsDict, startResp, worker, future, completed, collected>>

\* append char_result to the copy and write the whole record back
CollectWrite ==
    /\ bgpc = "write"
    /\ UNCHANGED <<nonJobVars, poll, parallel>>
    /\ LET char_result     == future[completed[collected + 1]]
           current_results == Append(current.results, char_result)
       IN  jobsDict' = [current EXCEPT
                          !.results = current_results,
                          !.status  = "running",
                          !.message = [kind  |-> "progress",
                                       done  |-> Len(current_results),
                                       total |-> Len(characters)]]
    /\ collected' = collected + 1
    /\ bgpc' = "wait"
    /\ current' = NoCurrent
    /\ UNCHANGED <<characters, startResp, worker, future, completed>>

\* variant of Finalize: a batch with a failed item ends in status "error"
Finalize_ErrorOnFailure ==
    /\ bgpc = "wait"
    /\ UNCHANGED <<nonJobVars, poll, parallel>>
    /\ collected = Len(characters)
    /\ LET final   == jobsDict
           results == SortResults(name_order(characters), final.results)
       IN  jobsDict' = [final EXCEPT
                          !.status  = IF OkCount(final.results) < Len(final.results)
                                      THEN "error" ELSE "done",
                          !.results = results,
                          !.message = [kind  |-> "done",
                                       ok    |-> OkCount(final.results),
                                       total |-> Len(final.results)]]
    /\ bgpc' = "exit"
    /\ UNCHANGED <<characters, startResp, worker, future, completed, collected, current>>

\* variant of Finalize: the done job lists the successful results only
Finalize_OkOnly ==
    /\ bgpc = "wait"
    /\ UNCHANGED <<nonJobVars, poll, parallel>>
    /\ collected = Len(characters)
    /\ LET final   == jobsDict
           results == SelectSeq(SortResults(name_order(characters), final.results),
                                LAMBDA r : r.ok)
       IN  jobsDict' = [final EXCEPT
                          !.status  = "done",
                          !.results = results,
                          !.message = [kind  |-> "done",
                                       ok    |-> OkCount(final.results),
                                       total |-> Len(final.results)]]
    /\ bgpc' = "exit"
    /\ UNCHANGED <<characters, startResp, worker, future, completed, collected, current>>

\* the executor block is left when every future was consumed: final stats,
\* sort by original character order, status "done"
Finalize ==
    /\ bgpc = "wait"
    /\ UNCHANGED <<nonJobVars, poll, parallel>>
    /\ collected = Len(characters)
    /\ LET final   == jobsDict
           results == SortResults(name_order(characters), final.results)
       IN  jobsDict' = [final EXCEPT
                          !.status  = "done",
                          !.results = results,
                          !.message = [kind  |-> "done",
                                       ok    |-> OkCount(final.results),
                                       total |-> Len(final.results)]]
    /\ bgpc' = "exit"
    /\ UNCHANGED <<characters, startResp, worker, future, completed, collected, current>>

\* _train_all_poll(job_id): the record of the job as the Dict holds it
Poll ==
    /\ UNCHANGED <<nonJobVars, parallel>>
    /\ poll' = IF jobsDict = NoJob
               THEN [ok |-> FALSE, error |-> "not found"]
               ELSE [ok |-> TRUE, job_id |-> "job_1", status |-> jobsDict.status,
                     results |-> jobsDict.results, characters |-> jobsDict.characters,
                     message |-> jobsDict.message]
    /\ UNCHANGED <<characters, jobsDict, startResp, worker, future, completed,
                   collected, bgpc, current>>

(***************************************************************************)
(* Budget governor: _budget_consume                                         *)
(***************************************************************************)
NumCallers == 2                   \* concurrent callers of _budget_consume
MaxCalls   == 3                   \* calls started in one behaviour
MaxDay     == 2                   \* last calendar day reached
DefaultLimit == 50                \* `else 50`

Callers == 1..NumCallers
Days    == 0..MaxDay              \* day 0 is the day before the first call
Apis    == {"openai_gpt4o", "openai_gpt4o_mini"}
NoRow   == [daily_limit |-> -1]

\* daily limits an operator may have left in the previous day's record
PriorLimits    == {0, 1, 2}
PositiveLimits == {1, 2}

\* COST_PER_CALL.get(api_name, 0.001), in thousandths of a dollar
COST_PER_CALL(api) ==
    CASE api = "openai_gpt4o"         -> 10
      [] api = "openai_gpt4o_mini"    -> 1
      [] api = "anthropic_opus"       -> 20
      [] api = "anthropic_sonnet"     -> 4
      [] api = "anthropic_haiku"      -> 1
      [] api = "perplexity_sonar_pro" -> 5
      [] api = "groq_llama"           -> 0
      [] api = "serpapi"              -> 2
      [] api = "firecrawl"            -> 2
      [] api = "apify"                -> 5
      [] OTHER                        -> 1

Row(limit, n, cost) == [daily_limit |-> limit, calls_today |-> n, cost_usd |-> cost]

NoLocals == [api_name |-> None, today |-> -1, row |-> NoRow, limit |-> -1]

\* .eq("api_name", api).order("budget_date", desc=True).limit(1)
LatestDay(api) ==
    LET ds == {d \in Days : budget[<<api, d>>] # NoRow}
    IN  IF ds = {} THEN -1 ELSE CHOOSE d \in ds : \A e \in ds : e <= d

\* api_budget before the first call: openai_gpt4o may have a record of the day
\* before, openai_gpt4o_mini has none (its first row takes the default limit)
BudgetInitWith(limits) ==
    /\ budget \in {b \in [Apis \X Days -> {NoRow} \cup {Row(l, 0, 0) : l \in limits}] :
                      /\ \A a \in Apis, d \in Days : d > 0 => b[<<a, d>>] = NoRow
                      /\ b[<<"openai_gpt4o_mini", 0>>] = NoRow}
    /\ today = 1
    /\ cpc = [c \in Callers |-> "idle"]
    /\ cloc = [c \in Callers |-> NoLocals]
    /\ cret = [c \in Callers |-> None]
    /\ granted = [k \in Apis \X Days |-> 0]
    /\ failOpens = 0
    /\ calls = 0

BudgetInit == BudgetInitWith(PriorLimits)

\* return from _budget_consume
BcReturn(c, value) ==
    /\ cpc' = [cpc EXCEPT ![c] = "idle"]
    /\ cret' = [cret EXCEPT ![c] = value]
    /\ cloc' = [cloc EXCEPT ![c] = NoLocals]

\* _budget_consume(sb, api_name) is entered: today = date.today().isoformat()
BcCall(c, api) ==
    /\ cpc[c] = "idle"
    /\ UNCHANGED nonBudgetVars
    /\ calls < MaxCalls
    /\ calls' = calls + 1
    /\ cpc' = [cpc EXCEPT ![c] = "select"]
    /\ cloc' = [cloc EXCEPT ![c] = [NoLocals EXCEPT !.api_name = api, !.today = today]]
    /\ cret' = [cret EXCEPT ![c] = None]
    /\ UNCHANGED <<budget, today, granted, failOpens>>

\* variant of BcSelect: the exhaustion test is `calls_today > daily_limit`
BcSelect_StrictTest(c) ==
    /\ cpc[c] = "select"
    /\ UNCHANGED nonBudgetVars
    /\ LET row == budget[<<cloc[c].api_name, cloc[c].today>>] IN
       IF row = NoRow
       THEN /\ cpc' = [cpc EXCEPT ![c] = "prev"]
            /\ UNCHANGED <<cloc, cret>>
       ELSE IF row.calls_today > row.daily_limit
            THEN BcReturn(c, "False")
            ELSE /\ cpc' = [cpc EXCEPT ![c] = "update"]
                 /\ cloc' = [cloc EXCEPT ![c].row = row]
                 /\ UNCHANGED cret
    /\ UNCHANGED <<budget, today, granted, failOpens, calls>>

\* the select of today's row, and the test `calls_today >= daily_limit`
BcSelect(c) ==
    /\ cpc[c] = "select"
    /\ UNCHANGED nonBudgetVars
    /\ LET row == budget[<<cloc[c].api_name, cloc[c].today>>] IN
       IF row = NoRow
       THEN /\ cpc' = [cpc EXCEPT ![c] = "prev"]
            /\ UNCHANGED <<cloc, cret>>
       ELSE IF row.calls_today >= row.daily_limit
            THEN BcReturn(c, "False")
            ELSE /\ cpc' = [cpc EXCEPT ![c] = "update"]
                 /\ cloc' = [cloc EXCEPT ![c].row = row]
                 /\ UNCHANGED cret
    /\ UNCHANGED <<budget, today, granted, failOpens, calls>>

\* first call today: the limit of the most recent record, or 50
BcPrev(c) ==
    /\ cpc[c] = "prev"
    /\ UNCHANGED nonBudgetVars
    /\ LET d == LatestDay(cloc[c].api_name) IN
       cloc' = [cloc EXCEPT ![c].limit =
                   IF d = -1 THEN DefaultLimit
                   ELSE budget[<<cloc[c].api_name, d>>].daily_limit]
    /\ cpc' = [cpc EXCEPT ![c] = "insert"]
    /\ UNCHANGED <<budget, today, cret, granted, failOpens, calls>>

\* insert of the seed row with calls_today = 1; the table is keyed by
\* (api_name, budget_date), so a second insert for the key raises and the
\* except branch returns True
BcInsert(c) ==
    /\ cpc[c] = "insert"
    /\ UNCHANGED nonBudgetVars
    /\ LET k == <<cloc[c].api_name, cloc[c].today>> IN
       IF budget[k] = NoRow
       THEN /\ budget' = [budget EXCEPT ![k] =
                            Row(cloc[c].limit, 1, COST_PER_CALL(cloc[c].api_name))]
            /\ granted' = [granted EXCEPT ![k] = @ + 1]
            /\ UNCHANGED failOpens
       ELSE /\ failOpens' = failOpens + 1
            /\ UNCHANGED <<budget, granted>>
    /\ BcReturn(c, "True")
    /\ UNCHANGED <<today, calls>>

\* update of calls_today and cost_usd from the values read at the select
BcUpdate(c) ==
    /\ cpc[c] = "update"
    /\ UNCHANGED nonBudgetVars
    /\ LET k == <<cloc[c].api_name, cloc[c].today>> IN
       /\ budget' = [budget EXCEPT ![k] =
                        IF @ = NoRow THEN @
                        ELSE [@ EXCEPT
                                !.calls_today = cloc[c].row.calls_today + 1,
                                !.cost_usd    = cloc[c].row.cost_usd
                                                  + COST_PER_CALL(cloc[c].api_name)]]
       /\ granted' = [granted EXCEPT ![k] = @ + 1]
    /\ BcReturn(c, "True")
    /\ UNCHANGED <<today, failOpens, calls>>

\* variant of BcStoreError: a store failure denies the call
BcStoreError_FailClosed(c) ==
    /\ cpc[c] \in {"select", "prev", "insert", "update"}
    /\ UNCHANGED nonBudgetVars
    /\ failOpens' = failOpens + 1
    /\ BcReturn(c, "False")
    /\ UNCHANGED <<budget, today, granted, calls>>

\* any store request raises (store unreachable): fail open
BcStoreError(c) ==
    /\ cpc[c] \in {"select", "prev", "insert", "update"}
    /\ UNCHANGED nonBudgetVars
    /\ failOpens' = failOpens + 1
    /\ BcReturn(c, "True")
    /\ UNCHANGED <<budget, today, granted, calls>>

\* midnight
NewDay ==
    /\ today < MaxDay
    /\ UNCHANGED nonBudgetVars
    /\ today' = today + 1
    /\ UNCHANGED <<budget, cpc, cloc, cret, granted, failOpens, calls>>

BudgetNext ==
    \/ \E c \in Callers, api \in Apis : BcCall(c, api)
    \/ \E c \in Callers : BcSelect(c)
    \/ \E c \in Callers : BcPrev(c)
    \/ \E c \in Callers : BcInsert(c)
    \/ \E c \in Callers : BcUpdate(c)
    \/ \E c \in Callers : BcStoreError(c)
    \/ NewDay

(***************************************************************************)
(* Quality-gated retry loop: _run_multi_angle_core, _qc_angle_gemini        *)
(***************************************************************************)
MaxUnits == 2                     \* longest angle_indices list requested

\* MULTI_ANGLE_SHOTS: strength_prop and strength_actor, in hundredths
StrengthProp  == <<72, 78, 78, 78, 75, 75, 78, 78, 82, 82, 58, 58, 55, 50, 80, 72>>
StrengthActor == <<72, 75, 75, 75, 72, 72, 75, 75, 80, 80, 58, 58, 55, 50, 78, 70>>
NumShots == Len(StrengthProp)     \* len(MULTI_ANGLE_SHOTS)

SeedStride   == 37                \* base_seed + angle_idx * 37
RetrySeed    == 1000              \* attempt * 1000
RetryBump    == 5                 \* attempt * 0.05
StrengthCap  == 88                \* min(..., 0.88)

BaseSeeds == {0, 42}
IndexPool == {-1, 0, 8, 16}       \* requested indices, two of them out of range

\* requests: source_b64 present or not, subject type, seed, GEMINI_API_KEY
\* present or not, angle_indices given (a list) or not (None: all angles)
AngleItems ==
    { it \in [ source_b64    : BOOLEAN,
               subject_type  : {"prop", "actor"},
               seed          : BaseSeeds,
               gemini_key    : BOOLEAN,
               has_indices   : BOOLEAN,
               angle_indices : SeqsUpTo(IndexPool, MaxUnits) ] :
        ~it.has_indices => it.angle_indices = <<>> }

NoItem  == [source_b64 |-> FALSE, subject_type |-> None, seed |-> 0,
            gemini_key |-> FALSE, has_indices |-> FALSE, angle_indices |-> <<>>]
\* no image: the value None of best_img
NoImage == [unit |-> 0, attempt |-> -1, seed |-> 0, strength |-> 0]
NoEvent == [event |-> None]

\* angle_entry[strength_field_idx]
NominalStrength(it, angle_idx) ==
    IF it.subject_type = "prop" THEN StrengthProp[angle_idx + 1]
    ELSE StrengthActor[angle_idx + 1]

\* [(i, MULTI_ANGLE_SHOTS[i]) for i in angle_indices_param if 0 <= i < len(...)]
RECURSIVE FilterInRange(_)
FilterInRange(s) ==
    IF s = <<>> THEN <<>>
    ELSE IF 0 <= Head(s) /\ Head(s) < NumShots
         THEN <<Head(s)>> \o FilterInRange(Tail(s))
         ELSE FilterInRange(Tail(s))

AngleSubset(it) ==
    IF it.has_indices THEN FilterInRange(it.angle_indices)
    ELSE [p \in 1..NumShots |-> p - 1]

\* what the Gemini call does: it answers the two questions, or it raises
QcResponses == { [raised |-> FALSE, angle_ok |-> a, subject_ok |-> b] : a, b \in BOOLEAN }
                   \cup { [raised |-> TRUE, angle_ok |-> FALSE, subject_ok |-> FALSE] }

\* _qc_angle_gemini: (passed, reason)
_qc_angle_gemini(api_key, resp) ==
    IF ~api_key THEN [passed |-> TRUE, reason |-> "qc_skipped"]
    ELSE IF resp.raised THEN [passed |-> TRUE, reason |-> "qc_error"]
    ELSE IF resp.angle_ok /\ resp.subject_ok THEN [passed |-> TRUE, reason |-> "pass"]
    ELSE [passed |-> FALSE,
          reason |-> IF ~resp.angle_ok /\ ~resp.subject_ok
                          THEN "wrong angle; subject not visible"
                     ELSE IF ~resp.angle_ok THEN "wrong angle"
                     ELSE "subject not visible"]

\* ghost: how one quality check ended
QcOutcome(api_key, resp) ==
    IF ~api_key THEN "skipped"
    ELSE IF resp.raised THEN "error"
    ELSE IF resp.angle_ok /\ resp.subject_ok THEN "pass" ELSE "fail"

AngleInit ==
    /\ item = NoItem
    /\ apc = "idle"
    /\ angle_subset = <<>>
    /\ upos = 0
    /\ attempt = 0
    /\ img_b64 = NoImage
    /\ angle_seed = 0
    /\ best_img = NoImage
    /\ best_seed = 0
    /\ qc_passed = TRUE
    /\ qc_reason = "qc_disabled"
    /\ total_generated = 0
    /\ events = <<>>
    /\ lastEvent = NoEvent
    /\ gens = 0
    /\ evFor = <<>>
    /\ qcHist = <<>>

\* one event leaves the generator (generate_sse forwards it)
Yield(ev) ==
    /\ events' = Append(events, [event |-> ev.event,
                                 angle_idx |-> IF ev.event = "angle" THEN ev.angle_idx ELSE -1])
    /\ lastEvent' = ev

\* the request arrives: missing source_b64 yields the error event; a failure
\* while decoding, captioning or loading raises, which generate_sse turns into
\* an error event; otherwise the init event is yielded
AngleStart(it, setup_ok) ==
    /\ apc = "idle"
    /\ UNCHANGED nonAngleVars
    /\ item' = it
    /\ IF ~it.source_b64
       THEN /\ Yield([event |-> "error", message |-> "source_b64 is required"])
            /\ apc' = "end"
            /\ UNCHANGED <<angle_subset, gens, evFor>>
       ELSE IF ~setup_ok
       THEN /\ Yield([event |-> "error", message |-> "exception"])
            /\ apc' = "end"
            /\ UNCHANGED <<angle_subset, gens, evFor>>
       ELSE /\ Yield([event |-> "init"])
            /\ angle_subset' = AngleSubset(it)
            /\ gens' = 0
            /\ evFor' = [p \in 1..Len(AngleSubset(it)) |-> 0]
            /\ apc' = "unit"
    /\ UNCHANGED <<upos, attempt, img_b64, angle_seed, best_img, best_seed,
                   qc_passed, qc_reason, total_generated, qcHist>>

\* head of `for angle_idx, angle_entry in angle_subset`: the unit's locals
UnitBegin ==
    /\ apc = "unit"
    /\ UNCHANGED nonAngleVars
    /\ upos < Len(angle_subset)
    /\ qc_passed' = TRUE
    /\ qc_reason' = "qc_disabled"
    /\ best_img' = NoImage
    /\ best_seed' = item.seed + angle_subset[upos + 1] * SeedStride
    /\ attempt' = 0
    /\ qcHist' = <<>>
    /\ gens' = 0
    /\ apc' = "gen"
    /\ UNCHANGED <<item, angle_subset, upos, img_b64, angle_seed, total_generated,
                   events, lastEvent, evFor>>

\* the loop is exhausted: the done event
AngleDone ==
    /\ apc = "unit"
    /\ UNCHANGED nonAngleVars
    /\ upos = Len(angle_subset)
    /\ Yield([event |-> "done", total |-> total_generated, seed |-> item.seed,
              qc_enabled |-> item.gemini_key])
    /\ apc' = "end"
    /\ UNCHANGED <<item, angle_subset, upos, attempt, img_b64, angle_seed, best_img,
                   best_seed, qc_passed, qc_reason, total_generated, gens, evFor, qcHist>>

\* the image one attempt produces, identified by unit, attempt, seed, strength
AttemptImage ==
    [ unit     |-> upos + 1,
      attempt  |-> attempt,
      seed     |-> best_seed + attempt * RetrySeed,
      strength |-> Min(NominalStrength(item, angle_subset[upos + 1]) + attempt * RetryBump,
                       StrengthCap) ]

\* variant of Generate: the retry reuses the seed of the first attempt
Generate_SameSeed(gen_ok) ==
    /\ apc = "gen"
    /\ UNCHANGED nonAngleVars
    /\ angle_seed' = best_seed
    /\ gens' = gens + 1
    /\ IF ~gen_ok
       THEN /\ Yield([event |-> "error", message |-> "exception"])
            /\ apc' = "end"
            /\ UNCHANGED <<img_b64, best_img, best_seed, qc_passed, qc_reason>>
       ELSE /\ img_b64' = [AttemptImage EXCEPT !.seed = best_seed]
            /\ UNCHANGED <<events, lastEvent>>
            /\ IF ~item.gemini_key
               THEN /\ best_img' = [AttemptImage EXCEPT !.seed = best_seed]
                    /\ best_seed' = best_seed
                    /\ qc_passed' = TRUE
                    /\ qc_reason' = "qc_disabled"
                    /\ apc' = "yield"
               ELSE /\ apc' = "qc"
                    /\ UNCHANGED <<best_img, best_seed, qc_passed, qc_reason>>
    /\ UNCHANGED <<item, angle_subset, upos, attempt, total_generated, evFor, qcHist>>

\* variant of Generate: a pipeline failure skips the unit and the loop goes on
Generate_SkipOnFailure(gen_ok) ==
    /\ apc = "gen"
    /\ UNCHANGED nonAngleVars
    /\ angle_seed' = best_seed + attempt * RetrySeed
    /\ gens' = gens + 1
    /\ IF ~gen_ok
       THEN /\ upos' = upos + 1
            /\ apc' = "unit"
            /\ UNCHANGED <<img_b64, best_img, best_seed, qc_passed, qc_reason,
                           events, lastEvent>>
       ELSE /\ img_b64' = AttemptImage
            /\ UNCHANGED <<events, lastEvent, upos>>
            /\ IF ~item.gemini_key
               THEN /\ best_img' = AttemptImage
                    /\ best_seed' = best_seed + attempt * RetrySeed
                    /\ qc_passed' = TRUE
                    /\ qc_reason' = "qc_disabled"
                    /\ apc' = "yield"
               ELSE /\ apc' = "qc"
                    /\ UNCHANGED <<best_img, best_seed, qc_passed, qc_reason>>
    /\ UNCHANGED <<item, angle_subset, attempt, total_generated, evFor, qcHist>>

\* one attempt: seed, strength, pipe_img2img; without QC the image is accepted
\* at once; a pipeline failure raises out of the generator
Generate(gen_ok) ==
    /\ apc = "gen"
    /\ UNCHANGED nonAngleVars
    /\ angle_seed' = best_seed + attempt * RetrySeed
    /\ gens' = gens + 1
    /\ IF ~gen_ok
       THEN /\ Yield([event |-> "error", message |-> "exception"])
            /\ apc' = "end"
            /\ UNCHANGED <<img_b64, best_img, best_seed, qc_passed, qc_reason>>
       ELSE /\ img_b64' = AttemptImage
            /\ UNCHANGED <<events, lastEvent>>
            /\ IF ~item.gemini_key
               THEN /\ best_img' = AttemptImage
                    /\ best_seed' = best_seed + attempt * RetrySeed
                    /\ qc_passed' = TRUE
                    /\ qc_reason' = "qc_disabled"
                    /\ apc' = "yield"
               ELSE /\ apc' = "qc"
                    /\ UNCHANGED <<best_img, best_seed, qc_passed, qc_reason>>
    /\ UNCHANGED <<item, angle_subset, upos, attempt, total_generated, evFor, qcHist>>

\* variant of QcCheck: after a second failure the second image is kept
QcCheck_KeepSecond(resp) ==
    /\ apc = "qc"
    /\ UNCHANGED nonAngleVars
    /\ LET qc == _qc_angle_gemini(item.gemini_key, resp) IN
       /\ qcHist' = Append(qcHist, [outcome |-> QcOutcome(item.gemini_key, resp),
                                    reason  |-> qc.reason])
       /\ qc_reason' = qc.reason
       /\ qc_passed' = qc.passed
       /\ IF qc.passed
          THEN /\ best_img' = img_b64
               /\ best_seed' = angle_seed
               /\ apc' = "yield"
               /\ UNCHANGED attempt
          ELSE IF attempt = 0
          THEN /\ best_img' = img_b64
               /\ best_seed' = angle_seed
               /\ attempt' = 1
               /\ apc' = "gen"
          ELSE /\ best_img' = img_b64
               /\ best_seed' = angle_seed
               /\ apc' = "yield"
               /\ UNCHANGED attempt
    /\ UNCHANGED <<item, angle_subset, upos, img_b64, angle_seed, total_generated,
                   events, lastEvent, gens, evFor>>

\* variant of QcCheck: a check that raises counts as a failed check
QcCheck_ErrorFails(resp) ==
    /\ apc = "qc"
    /\ UNCHANGED nonAngleVars
    /\ LET qc == IF resp.raised THEN [passed |-> FALSE, reason |-> "qc_error"]
                 ELSE _qc_angle_gemini(item.gemini_key, resp) IN
       /\ qcHist' = Append(qcHist, [outcome |-> QcOutcome(item.gemini_key, resp),
                                    reason  |-> qc.reason])
       /\ qc_reason' = qc.reason
       /\ qc_passed' = qc.passed
       /\ IF qc.passed
          THEN /\ best_img' = img_b64
               /\ best_seed' = angle_seed
               /\ apc' = "yield"
               /\ UNCHANGED attempt
          ELSE IF attempt = 0
          THEN /\ best_img' = img_b64
               /\ best_seed' = angle_seed
               /\ attempt' = 1
               /\ apc' = "gen"
          ELSE /\ best_img' = IF best_img = NoImage THEN img_b64 ELSE best_img
               /\ best_seed' = IF best_img = NoImage THEN angle_seed ELSE best_seed
               /\ apc' = "yield"
               /\ UNCHANGED attempt
    /\ UNCHANGED <<item, angle_subset, upos, img_b64, angle_seed, total_generated,
                   events, lastEvent, gens, evFor>>

\* the quality check of the attempt's image and the branch taken on it
QcCheck(resp) ==
    /\ apc = "qc"
    /\ UNCHANGED nonAngleVars
    /\ LET qc == _qc_angle_gemini(item.gemini_key, resp) IN
       /\ qcHist' = Append(qcHist, [outcome |-> QcOutcome(item.gemini_key, resp),
                                    reason  |-> qc.reason])
       /\ qc_reason' = qc.reason
       /\ qc_passed' = qc.passed
       /\ IF qc.passed
          THEN /\ best_img' = img_b64
               /\ best_seed' = angle_seed
               /\ apc' = "yield"
               /\ UNCHANGED attempt
          ELSE IF attempt = 0
          THEN /\ best_img' = img_b64
               /\ best_seed' = angle_seed
               /\ attempt' = 1
               /\ apc' = "gen"
          ELSE /\ best_img' = IF best_img = NoImage THEN img_b64 ELSE best_img
               /\ best_seed' = IF best_img = NoImage THEN angle_seed ELSE best_seed
               /\ apc' = "yield"
               /\ UNCHANGED attempt
    /\ UNCHANGED <<item, angle_subset, upos, img_b64, angle_seed, total_generated,
                   events, lastEvent, gens, evFor>>

\* variant of YieldAngle: a unit whose checks all failed is dropped
YieldAngle_DropFailed ==
    /\ apc = "yield"
    /\ UNCHANGED nonAngleVars
    /\ IF qc_passed
       THEN /\ total_generated' = total_generated + 1
            /\ Yield([ event     |-> "angle",
                       angle_idx |-> angle_subset[upos + 1],
                       image     |-> best_img,
                       seed      |-> best_seed,
                       strength  |-> NominalStrength(item, angle_subset[upos + 1]),
                       qc_passed |-> qc_passed,
                       qc_reason |-> qc_reason,
                       unit      |-> upos + 1,
                       checks    |-> qcHist ])
            /\ evFor' = [evFor EXCEPT ![upos + 1] = @ + 1]
       ELSE UNCHANGED <<total_generated, events, lastEvent, evFor>>
    /\ upos' = upos + 1
    /\ apc' = "unit"
    /\ UNCHANGED <<item, angle_subset, attempt, img_b64, angle_seed, best_img,
                   best_seed, qc_passed, qc_reason, gens, qcHist>>

\* total_generated += 1 and the angle event of the unit
YieldAngle ==
    /\ apc = "yield"
    /\ UNCHANGED nonAngleVars
    /\ total_generated' = total_generated + 1
    /\ Yield([ event     |-> "angle",
               angle_idx |-> angle_subset[upos + 1],
               image     |-> best_img,
               seed      |-> best_seed,
               strength  |-> NominalStrength(item, angle_subset[upos + 1]),
               qc_passed |-> qc_passed,
               qc_reason |-> qc_reason,
               unit      |-> upos + 1,       \* ghost: position of the unit
               checks    |-> qcHist ])       \* ghost: its quality checks
    /\ evFor' = [evFor EXCEPT ![upos + 1] = @ + 1]
    /\ upos' = upos + 1
    /\ apc' = "unit"
    /\ UNCHANGED <<item, angle_subset, attempt, img_b64, angle_seed, best_img,
                   best_seed, qc_passed, qc_reason, gens, qcHist>>

AngleNext ==
    \/ \E it \in AngleItems, setup_ok \in BOOLEAN : AngleStart(it, setup_ok)
    \/ UnitBegin
    \/ AngleDone
    \/ \E gen_ok \in BOOLEAN : Generate(gen_ok)
    \/ \E resp \in QcResponses : QcCheck(resp)
    \/ YieldAngle

(***************************************************************************)
(* Chat and conversation endpoints, dialogue graph                          *)
(***************************************************************************)
MaxChats == 2                     \* /chat requests in one behaviour
MaxIds   == 9                     \* longest character_ids list requested

MinParticipants == 2              \* len(req.character_ids) < 2  -> 400
MaxParticipants == 8              \* len(req.character_ids) > 8  -> 400
MinRounds       == 1              \* Field(default=3, ge=1, le=10)
MaxRounds       == 10
HistoryLimit    == 50             \* .order("sequence_number").limit(50)

\* /conversation requests: number of character ids, max_rounds (validated by
\* the request model), topic and user_message non-empty or not, save_to_db
ConversationRequests ==
    [ n            : 1..MaxIds,
      max_rounds   : MinRounds..MaxRounds,
      topic        : BOOLEAN,
      user_message : BOOLEAN,
      save_to_db   : BOOLEAN ]

\* the requests used together with /chat: the shortest and a long dialogue
StoredConversationRequests ==
    { req \in ConversationRequests : req.n \in {2, 8} /\ req.max_rounds \in {1, 7} }

NoRequest == [n |-> 0, max_rounds |-> 0, topic |-> FALSE, user_message |-> FALSE,
              save_to_db |-> FALSE]
NoState   == [messages |-> <<>>, current_speaker_idx |-> 0, rounds_completed |-> 0,
              max_rounds |-> 0, n |-> 0]
NoResponse == [conversation_id |-> -1, messages |-> <<>>, rounds_completed |-> 0]
NoChat    == [conversation_id |-> 0, save_to_db |-> FALSE, history |-> 0]

\* the seed messages of a conversation (speaker -1: character_id None)
Seeds(req) ==
    (IF req.topic THEN <<[role |-> "user", speaker |-> -1, round |-> 0]>> ELSE <<>>)
    \o (IF req.user_message THEN <<[role |-> "user", speaker |-> -1, round |-> 0]>> ELSE <<>>)

\* variant of router_fn: the test is rounds_completed > max_rounds
router_fn_Strict(state) ==
    IF state.rounds_completed > state.max_rounds THEN "end" ELSE "character"

\* router_fn / should_continue
router_fn(state) ==
    IF state.rounds_completed >= state.max_rounds THEN "end" ELSE "character"

\* variant of char_node: the message is tagged with the round count after the
\* turn
char_node_TagAfter(state, idx) ==
    LET next_idx  == (idx + 1) % state.n
        done_rounds == state.rounds_completed + (IF next_idx = 0 THEN 1 ELSE 0)
    IN  [state EXCEPT
           !.messages = state.messages \o
                          <<[role |-> "assistant", speaker |-> idx,
                             round |-> done_rounds]>>,
           !.current_speaker_idx = next_idx,
           !.rounds_completed = done_rounds]

\* node(state) of make_char_node(idx): the update the node returns, merged
\* into the state (messages through operator.add)
char_node(state, idx) ==
    LET next_idx  == (idx + 1) % state.n
        done_rounds == state.rounds_completed + (IF next_idx = 0 THEN 1 ELSE 0)
    IN  [state EXCEPT
           !.messages = state.messages \o
                          <<[role |-> "assistant", speaker |-> idx,
                             round |-> state.rounds_completed]>>,
           !.current_speaker_idx = next_idx,
           !.rounds_completed = done_rounds]

\* save_msg for msgs[from..], sequence_number = position in msgs
RECURSIVE StoredRows(_, _)
StoredRows(msgs, k) ==
    IF k > Len(msgs) THEN <<>>
    ELSE <<[sequence_number |-> k - 1, role |-> msgs[k].role,
            character_id |-> msgs[k].speaker, round_number |-> msgs[k].round]>>
         \o StoredRows(msgs, k + 1)

\* the next unused conversation id
NewConvId == Cardinality(DOMAIN convTable) + 1

ChatInit ==
    /\ msgTable = <<>>
    /\ convTable = <<>>
    /\ dreq = NoRequest
    /\ dpc = "idle"
    /\ dstate = NoState
    /\ dresp = NoResponse
    /\ chatpc = "idle"
    /\ chatreq = NoChat
    /\ chats = 0

\* variant of ConversationRequest: the conversation row is created (ensure_conv)
\* before the graph runs
ConversationRequest_EnsureFirst(req) ==
    /\ dpc = "idle"
    /\ UNCHANGED nonChatVars
    /\ dreq' = req
    /\ IF req.n < MinParticipants \/ req.n > MaxParticipants
       THEN /\ dpc' = "rejected"
            /\ UNCHANGED <<dstate, convTable, msgTable>>
       ELSE /\ dpc' = "router"
            /\ dstate' = [messages |-> Seeds(req), current_speaker_idx |-> 0,
                          rounds_completed |-> 0, max_rounds |-> req.max_rounds,
                          n |-> req.n]
            /\ IF req.save_to_db
               THEN /\ convTable' = Append(convTable,
                                           [mode |-> "multi", max_rounds |-> req.max_rounds,
                                            status |-> "active", current_round |-> 0])
                    /\ msgTable' = Append(msgTable, <<>>)
               ELSE UNCHANGED <<convTable, msgTable>>
    /\ UNCHANGED <<dresp, chatpc, chatreq, chats>>

\* variant of ConversationRequest: the upper limit on the ids is not tested
ConversationRequest_NoUpperBound(req) ==
    /\ dpc = "idle"
    /\ UNCHANGED nonChatVars
    /\ dreq' = req
    /\ IF req.n < MinParticipants
       THEN /\ dpc' = "rejected"
            /\ UNCHANGED dstate
       ELSE /\ dpc' = "router"
            /\ dstate' = [messages |-> Seeds(req), current_speaker_idx |-> 0,
                          rounds_completed |-> 0, max_rounds |-> req.max_rounds,
                          n |-> req.n]
    /\ UNCHANGED <<msgTable, convTable, dresp, chatpc, chatreq, chats>>

\* POST /conversation: validation of the number of ids, seeds, initial state
ConversationRequest(req) ==
    /\ dpc = "idle"
    /\ UNCHANGED nonChatVars
    /\ dreq' = req
    /\ IF req.n < MinParticipants \/ req.n > MaxParticipants
       THEN /\ dpc' = "rejected"
            /\ UNCHANGED dstate
       ELSE /\ dpc' = "router"
            /\ dstate' = [messages |-> Seeds(req), current_speaker_idx |-> 0,
                          rounds_completed |-> 0, max_rounds |-> req.max_rounds,
                          n |-> req.n]
    /\ UNCHANGED <<msgTable, convTable, dresp, chatpc, chatreq, chats>>

\* the router node and its conditional edge
Router ==
    /\ dpc = "router"
    /\ UNCHANGED nonChatVars
    /\ dpc' = IF router_fn(dstate) = "end" THEN "finished" ELSE "character"
    /\ UNCHANGED <<msgTable, convTable, dreq, dstate, dresp, chatpc, chatreq, chats>>

\* variant of CharacterTurn: the node never counts a round (its wrap test never
\* succeeds); the transcript is cut at the length no dialogue exceeds
CharacterTurn_NoRoundCount(llm_ok) ==
    /\ dpc = "character"
    /\ Len(dstate.messages) < 2 + dstate.n * dstate.max_rounds
    /\ UNCHANGED nonChatVars
    /\ IF llm_ok
       THEN /\ dstate' = [char_node(dstate, dstate.current_speaker_idx) EXCEPT
                            !.rounds_completed = dstate.rounds_completed]
            /\ dpc' = "router"
       ELSE /\ dpc' = "aborted"
            /\ UNCHANGED dstate
    /\ UNCHANGED <<msgTable, convTable, dreq, dresp, chatpc, chatreq, chats>>

\* the node of the current speaker; an LLM failure raises out of graph.invoke
CharacterTurn(llm_ok) ==
    /\ dpc = "character"
    /\ UNCHANGED nonChatVars
    /\ IF llm_ok
       THEN /\ dstate' = char_node(dstate, dstate.current_speaker_idx)
            /\ dpc' = "router"
       ELSE /\ dpc' = "aborted"
            /\ UNCHANGED dstate
    /\ UNCHANGED <<msgTable, convTable, dreq, dresp, chatpc, chatreq, chats>>

\* after graph.invoke: the transcript is saved (if asked) and returned
ConversationRespond ==
    /\ dpc = "finished"
    /\ UNCHANGED nonChatVars
    /\ IF dreq.save_to_db
       THEN /\ convTable' = Append(convTable,
                                   [mode |-> "multi", max_rounds |-> dreq.max_rounds,
                                    status |-> "completed",
                                    current_round |-> dstate.rounds_completed])
            /\ msgTable' = Append(msgTable, StoredRows(dstate.messages, 1))
            /\ dresp' = [conversation_id |-> NewConvId, messages |-> dstate.messages,
                         rounds_completed |-> dstate.rounds_completed]
       ELSE /\ dresp' = [conversation_id |-> 0, messages |-> dstate.messages,
                         rounds_completed |-> dstate.rounds_completed]
            /\ UNCHANGED <<msgTable, convTable>>
    /\ dpc' = "responded"
    /\ UNCHANGED <<dreq, dstate, chatpc, chatreq, chats>>

\* POST /chat: the history of the conversation, at most 50 rows
ChatRequest(conv_id, save) ==
    /\ chatpc = "idle"
    /\ UNCHANGED nonChatVars
    /\ chats < MaxChats
    /\ chats' = chats + 1
    /\ chatreq' = [conversation_id |-> conv_id, save_to_db |-> save,
                   history |-> IF conv_id = 0 THEN 0
                               ELSE Min(Len(msgTable[conv_id]), HistoryLimit)]
    /\ chatpc' = "llm"
    /\ UNCHANGED <<msgTable, convTable, dreq, dpc, dstate, dresp>>

\* the reply arrives (or the LLM call raises); the two messages are saved
\* with sequence numbers len(history) and len(history) + 1
ChatReply(llm_ok) ==
    /\ chatpc = "llm"
    /\ UNCHANGED nonChatVars
    /\ IF llm_ok /\ chatreq.save_to_db
       THEN LET base == chatreq.history
                rows == <<[sequence_number |-> base, role |-> "user",
                           character_id |-> -1, round_number |-> 0],
                          [sequence_number |-> base + 1, role |-> "assistant",
                           character_id |-> 0, round_number |-> 0]>>
            IN  IF chatreq.conversation_id = 0
                THEN /\ convTable' = Append(convTable,
                                            [mode |-> "single", max_rounds |-> 100,
                                             status |-> "active", current_round |-> 0])
                     /\ msgTable' = Append(msgTable, rows)
                ELSE /\ msgTable' = [msgTable EXCEPT ![chatreq.conversation_id] = @ \o rows]
                     /\ UNCHANGED convTable
       ELSE UNCHANGED <<msgTable, convTable>>
    /\ chatpc' = "idle"
    /\ chatreq' = NoChat
    /\ UNCHANGED <<dreq, dpc, dstate, dresp, chats>>

DialogueNext ==
    \/ \E req \in ConversationRequests : ConversationRequest(req)
    \/ Router
    \/ \E llm_ok \in BOOLEAN : CharacterTurn(llm_ok)
    \/ ConversationRespond

ChatNext ==
    \/ \E req \in StoredConversationRequests : ConversationRequest(req)
    \/ Router
    \/ \E llm_ok \in BOOLEAN : CharacterTurn(llm_ok)
    \/ ConversationRespond
    \/ \E conv_id \in {0} \cup DOMAIN convTable, save \in BOOLEAN : ChatRequest(conv_id, save)
    \/ \E llm_ok \in BOOLEAN : ChatReply(llm_ok)

JobNext ==
    \/ \E chars \in SeqsUpTo(SubmitNames, MaxSubmit) : TrainAllStart(chars)
    \/ \E p \in 1..CharCap, o \in BackendOutcomes : TrainOneReturn(p, o)
    \/ \E p \in 1..CharCap : TrainOneRaise(p)
    \/ CollectRead
    \/ CollectWrite
    \/ Finalize

(***************************************************************************)
(* One LLM turn: resolve_role_llm, resolve_role_llm_with_budget,            *)
(* invoke_with_role, _cmo_enrich                                            *)
(***************************************************************************)
Cfg(p, m) == [provider |-> p, model |-> m]
NoCfg     == Cfg(None, None)        \* a config that is None

RoleEntry(p, s) == [primary |-> p, secondary |-> s]

ROLE_LLM_MAP ==
    "ceo"       :> RoleEntry(Cfg("openai", "gpt-4o"), Cfg("anthropic", "claude-opus-4-5")) @@
    "cmo"       :> RoleEntry(Cfg("perplexity", "sonar-pro"), NoCfg) @@
    "cto"       :> RoleEntry(Cfg("anthropic", "claude-opus-4-5"), NoCfg) @@
    "developer" :> RoleEntry(Cfg("anthropic", "claude-sonnet-4-5"), NoCfg) @@
    "engineer"  :> RoleEntry(Cfg("anthropic", "claude-sonnet-4-5"), NoCfg) @@
    "sales"     :> RoleEntry(Cfg("openai", "gpt-4o"), Cfg("anthropic", "claude-sonnet-4-5")) @@
    "creator"   :> RoleEntry(Cfg("openai", "gpt-4o-mini"), Cfg("anthropic", "claude-sonnet-4-5")) @@
    "analyst"   :> RoleEntry(Cfg("openai", "gpt-4o"), Cfg("anthropic", "claude-sonnet-4-5")) @@
    "host"      :> RoleEntry(Cfg("openai", "gpt-4o-mini"), Cfg("anthropic", "claude-sonnet-4-5")) @@
    "designer"  :> RoleEntry(Cfg("openai", "gpt-4o-mini"), Cfg("anthropic", "claude-sonnet-4-5")) @@
    "support"   :> RoleEntry(Cfg("openai", "gpt-4o-mini"), Cfg("anthropic", "claude-sonnet-4-5"))

DEFAULT_LLM == Cfg("openai", "gpt-4o-mini")

FALLBACK_LLM ==
    "openai_gpt4o"         :> Cfg("openai", "gpt-4o-mini") @@
    "anthropic_opus"       :> Cfg("anthropic", "claude-haiku-4-5") @@
    "anthropic_sonnet"     :> Cfg("anthropic", "claude-haiku-4-5") @@
    "perplexity_sonar_pro" :> Cfg("openai", "gpt-4o-mini")

\* `sub in m` for the model names and the substrings _api_key_name tests
Contains(m, sub) ==
    CASE sub = "gpt-4o-mini" -> m = "gpt-4o-mini"
      [] sub = "gpt-4o"      -> m \in {"gpt-4o", "gpt-4o-mini"}
      [] sub = "opus"        -> m = "claude-opus-4-5"
      [] sub = "haiku"       -> m = "claude-haiku-4-5"
      [] OTHER               -> FALSE

_api_key_name(cfg) ==
    LET m == cfg.model IN
    IF cfg.provider = "openai"
    THEN IF Contains(m, "gpt-4o-mini") THEN "openai_gpt4o_mini"
         ELSE IF Contains(m, "gpt-4o") THEN "openai_gpt4o"
         ELSE "openai_gpt4o_mini"
    ELSE IF cfg.provider = "anthropic"
    THEN IF Contains(m, "opus") THEN "anthropic_opus"
         ELSE IF Contains(m, "haiku") THEN "anthropic_haiku"
         ELSE "anthropic_sonnet"
    ELSE IF cfg.provider = "perplexity" THEN "perplexity_sonar_pro"
    ELSE IF cfg.provider = "groq" THEN "groq_llama"
    ELSE "openai_gpt4o_mini"

\* resolve_role_llm: the first recognized role of personality.roles
resolve_role_llm(roles) ==
    LET ks == {k \in 1..Len(roles) : roles[k] \in DOMAIN ROLE_LLM_MAP} IN
    IF ks = {}
    THEN [primary |-> DEFAULT_LLM, secondary |-> NoCfg, role |-> "default"]
    ELSE LET k == CHOOSE j \in ks : \A i \in ks : j <= i IN
         [primary   |-> ROLE_LLM_MAP[roles[k]].primary,
          secondary |-> ROLE_LLM_MAP[roles[k]].secondary,
          role      |-> roles[k]]

SearchTools == <<"serpapi", "firecrawl", "apify">>   \* in the order _cmo_enrich tries them

\* personality.roles of the characters that take a turn, and the api_budget
\* names their turns can consume: the ensemble and single-LLM roles ...
RoleLists == {<<"ceo">>, <<"intern", "cto">>, <<"creator">>, <<>>}
TurnApis  == {"openai_gpt4o", "openai_gpt4o_mini", "anthropic_opus", "anthropic_sonnet",
              "anthropic_haiku"}
\* ... and the research role
ResearchRoleLists == {<<"cmo">>}
ResearchApis      == {"perplexity_sonar_pro", "openai_gpt4o_mini",
                      "serpapi", "firecrawl", "apify"}

\* req.llm when the client chooses the provider itself
CallerLlm == Cfg("groq", "llama-3.3-70b-versatile")

\* both callers of invoke_with_role (the character node of the dialogue graph
\* and /chat) pass the client get_sb() returned
SbGiven == {TRUE}

\* the search credentials and the query are only read by _cmo_enrich
TurnRequests ==
    { [roles |-> r, caller_llm |-> c, sb |-> sb, keys |-> {}, user_query |-> TRUE] :
        r \in RoleLists, c \in {NoCfg, CallerLlm}, sb \in SbGiven }

ResearchRequests ==
    { [roles |-> r, caller_llm |-> c, sb |-> sb, keys |-> ks, user_query |-> q] :
        r \in ResearchRoleLists, c \in {NoCfg, CallerLlm}, sb \in SbGiven,
        ks \in SUBSET {"serpapi", "firecrawl", "apify"}, q \in BOOLEAN }

NoTurn   == [roles |-> <<>>, caller_llm |-> NoCfg, sb |-> FALSE, keys |-> {},
             user_query |-> FALSE]
NoRoleCfg == [primary |-> NoCfg, secondary |-> NoCfg, role |-> None, fallback_used |-> FALSE]
NoReturn == [kind |-> None]

\* the content an LLM returns for an input
Output(cfg, input) == [by |-> cfg, of |-> input]

\* _budget_consume run from entry to return by one caller: the value returned
\* and the table it leaves (store_ok = FALSE: a store request raised)
BudgetConsume(api, store_ok) ==
    LET k     == <<api, today>>
        row   == budget[k]
        d     == LatestDay(api)
        limit == IF d = -1 THEN DefaultLimit ELSE budget[<<api, d>>].daily_limit
    IN  IF ~store_ok THEN [ret |-> TRUE, table |-> budget]
        ELSE IF row = NoRow
        THEN [ret |-> TRUE,
              table |-> [budget EXCEPT ![k] = Row(limit, 1, COST_PER_CALL(api))]]
        ELSE IF row.calls_today >= row.daily_limit
        THEN [ret |-> FALSE, table |-> budget]
        ELSE [ret |-> TRUE,
              table |-> [budget EXCEPT ![k] = Row(row.daily_limit, row.calls_today + 1,
                                                  row.cost_usd + COST_PER_CALL(api))]]

\* {**base, "fallback_used": f}
WithFallbackUsed(base, f) ==
    [primary |-> base.primary, secondary |-> base.secondary, role |-> base.role,
     fallback_used |-> f]

\* where invoke_with_role goes once role_cfg is known (lines 2671, 2682, 2688)
AfterResolve(cfg) ==
    IF cfg.role = "cmo" THEN "serpapi"
    ELSE IF cfg.secondary = NoCfg \/ cfg.fallback_used THEN "single"
    ELSE "consume_secondary"

TurnIdle ==
    /\ tpc = "idle"
    /\ treq = NoTurn
    /\ role_cfg = NoRoleCfg
    /\ secondary_allowed = TRUE
    /\ search_context = <<>>
    /\ tret = NoReturn
    /\ consumed = <<>>
    /\ toolCalls = <<>>
    /\ invoked = <<>>
    /\ budget0 = <<>>

\* api_budget when the turn starts: today's record of an api is absent or exhausted
TurnBudgetInit(apis) ==
    /\ budget \in {b \in [apis \X Days -> {NoRow, Row(1, 1, 0)}] :
                      \A a \in apis, d \in Days : d # 1 => b[<<a, d>>] = NoRow}
    /\ today = 1
    /\ cpc = [c \in Callers |-> "idle"]
    /\ cloc = [c \in Callers |-> NoLocals]
    /\ cret = [c \in Callers |-> None]
    /\ granted = [k \in Apis \X Days |-> 0]
    /\ failOpens = 0
    /\ calls = 0

\* a call of _budget_consume by the turn
Consume(api, store_ok) ==
    /\ budget' = BudgetConsume(api, store_ok).table
    /\ consumed' = Append(consumed, [api |-> api, ret |-> BudgetConsume(api, store_ok).ret])

\* an llm.invoke of the turn; a failure raises out of invoke_with_role
Invoke(cfg, input, llm_ok, next) ==
    /\ invoked' = Append(invoked, [cfg |-> cfg, input |-> input])
    /\ IF llm_ok THEN next
       ELSE /\ tpc' = "raised"
            /\ tret' = [kind |-> "raise"]

Return(reply, label) ==
    /\ tpc' = "returned"
    /\ tret' = [kind |-> "return", reply |-> reply, label |-> label]

\* variant of TurnStart: an explicit caller_llm does not skip the budget logic
TurnStart_AlwaysResolve(req) ==
    /\ tpc = "idle"
    /\ UNCHANGED nonTurnVars
    /\ treq' = req
    /\ budget0' = budget
    /\ IF req.sb
       THEN /\ tpc' = "consume_primary"
            /\ UNCHANGED role_cfg
       ELSE IF req.caller_llm # NoCfg
       THEN /\ tpc' = "override"
            /\ UNCHANGED role_cfg
       ELSE /\ role_cfg' = WithFallbackUsed(resolve_role_llm(req.roles), FALSE)
            /\ tpc' = AfterResolve(role_cfg')
    /\ UNCHANGED <<budget, secondary_allowed, search_context, tret, consumed,
                   toolCalls, invoked>>

\* invoke_with_role is entered
TurnStart(req) ==
    /\ tpc = "idle"
    /\ UNCHANGED nonTurnVars
    /\ treq' = req
    /\ budget0' = budget
    /\ IF req.caller_llm # NoCfg
       THEN /\ tpc' = "override"
            /\ UNCHANGED role_cfg
       ELSE IF req.sb
       THEN /\ tpc' = "consume_primary"
            /\ UNCHANGED role_cfg
       ELSE /\ role_cfg' = WithFallbackUsed(resolve_role_llm(req.roles), FALSE)
            /\ tpc' = AfterResolve(role_cfg')
    /\ UNCHANGED <<budget, secondary_allowed, search_context, tret, consumed,
                   toolCalls, invoked>>

\* caller_llm is not None: one invocation of the caller's config, no budget check
OverrideInvoke(llm_ok) ==
    /\ tpc = "override"
    /\ UNCHANGED nonTurnVars
    /\ Invoke(treq.caller_llm, "lc_messages", llm_ok,
              Return(Output(treq.caller_llm, "lc_messages"),
                     treq.caller_llm.provider \o "/" \o treq.caller_llm.model))
    /\ UNCHANGED <<budget, treq, role_cfg, secondary_allowed, search_context,
                   consumed, toolCalls, budget0>>

\* variant of ConsumePrimary: a denied primary with a fallback configured raises
ConsumePrimary_DeniedRaises(store_ok) ==
    /\ tpc = "consume_primary"
    /\ UNCHANGED nonTurnVars
    /\ LET base        == resolve_role_llm(treq.roles)
           primary_key == _api_key_name(base.primary)
           allowed     == BudgetConsume(primary_key, store_ok).ret
       IN  /\ Consume(primary_key, store_ok)
           /\ IF allowed \/ primary_key \notin DOMAIN FALLBACK_LLM
              THEN /\ role_cfg' = WithFallbackUsed(base, FALSE)
                   /\ tpc' = AfterResolve(role_cfg')
                   /\ UNCHANGED tret
              ELSE /\ tpc' = "raised"
                   /\ tret' = [kind |-> "raise"]
                   /\ UNCHANGED role_cfg
    /\ UNCHANGED <<treq, secondary_allowed, search_context, toolCalls,
                   invoked, budget0>>

\* resolve_role_llm_with_budget: the consume of the primary, and what follows
\* when it is allowed or when no fallback is configured
ConsumePrimary(store_ok) ==
    /\ tpc = "consume_primary"
    /\ UNCHANGED nonTurnVars
    /\ LET base        == resolve_role_llm(treq.roles)
           primary_key == _api_key_name(base.primary)
           allowed     == BudgetConsume(primary_key, store_ok).ret
       IN  /\ Consume(primary_key, store_ok)
           /\ IF allowed \/ primary_key \notin DOMAIN FALLBACK_LLM
              THEN /\ role_cfg' = WithFallbackUsed(base, FALSE)
                   /\ tpc' = AfterResolve(role_cfg')
              ELSE /\ tpc' = "consume_fallback"
                   /\ UNCHANGED role_cfg
    /\ UNCHANGED <<treq, secondary_allowed, search_context, tret, toolCalls,
                   invoked, budget0>>

\* variant of ConsumeFallback: the fallback keeps the role's secondary and the
\* turn goes on to the ensemble
ConsumeFallback_ThenEnsemble(store_ok) ==
    /\ tpc = "consume_fallback"
    /\ UNCHANGED nonTurnVars
    /\ LET base         == resolve_role_llm(treq.roles)
           fallback_cfg == FALLBACK_LLM[_api_key_name(base.primary)]
       IN  /\ Consume(_api_key_name(fallback_cfg), store_ok)
           /\ role_cfg' = [primary |-> fallback_cfg, secondary |-> base.secondary,
                           role |-> base.role, fallback_used |-> TRUE]
           /\ tpc' = IF base.secondary = NoCfg THEN "single" ELSE "consume_secondary"
    /\ UNCHANGED <<treq, secondary_allowed, search_context, tret, toolCalls,
                   invoked, budget0>>

\* the primary was denied and has a fallback: consume it (best effort) and
\* return the fallback config
ConsumeFallback(store_ok) ==
    /\ tpc = "consume_fallback"
    /\ UNCHANGED nonTurnVars
    /\ LET base         == resolve_role_llm(treq.roles)
           fallback_cfg == FALLBACK_LLM[_api_key_name(base.primary)]
       IN  /\ Consume(_api_key_name(fallback_cfg), store_ok)
           /\ role_cfg' = [primary |-> fallback_cfg, secondary |-> NoCfg,
                           role |-> base.role, fallback_used |-> TRUE]
           /\ tpc' = AfterResolve(role_cfg')
    /\ UNCHANGED <<treq, secondary_allowed, search_context, tret, toolCalls,
                   invoked, budget0>>

\* variant of SearchTool: a tool whose request fails raises out of the turn
SearchTool_FailureRaises(t, store_ok, outcome) ==
    /\ tpc = SearchTools[t]
    /\ UNCHANGED nonTurnVars
    /\ LET tool    == SearchTools[t]
           allowed == IF treq.sb THEN BudgetConsume(tool, store_ok).ret ELSE TRUE
           called  == tool \in treq.keys /\ treq.user_query /\ allowed
       IN  /\ IF treq.sb THEN Consume(tool, store_ok) ELSE UNCHANGED <<budget, consumed>>
           /\ toolCalls' = IF called
                           THEN Append(toolCalls, [tool |-> tool, outcome |-> outcome])
                           ELSE toolCalls
           /\ search_context' = IF called /\ outcome = "results"
                                THEN Append(search_context, tool)
                                ELSE search_context
           /\ IF called /\ outcome = "raised"
              THEN /\ tpc' = "raised"
                   /\ tret' = [kind |-> "raise"]
              ELSE /\ tpc' = IF t < Len(SearchTools) THEN SearchTools[t + 1]
                             ELSE "cmo_invoke"
                   /\ UNCHANGED tret
    /\ UNCHANGED <<treq, role_cfg, secondary_allowed, invoked, budget0>>

\* _cmo_enrich, one search tool: its consume (when sb is given), then its
\* request when the credential, the query and the budget allow it
SearchTool(t, store_ok, outcome) ==
    /\ tpc = SearchTools[t]
    /\ UNCHANGED nonTurnVars
    /\ LET tool    == SearchTools[t]
           allowed == IF treq.sb THEN BudgetConsume(tool, store_ok).ret ELSE TRUE
           called  == tool \in treq.keys /\ treq.user_query /\ allowed
       IN  /\ IF treq.sb THEN Consume(tool, store_ok) ELSE UNCHANGED <<budget, consumed>>
           /\ toolCalls' = IF called
                           THEN Append(toolCalls, [tool |-> tool, outcome |-> outcome])
                           ELSE toolCalls
           /\ search_context' = IF called /\ outcome = "results"
                                THEN Append(search_context, tool)
                                ELSE search_context
    /\ tpc' = IF t < Len(SearchTools) THEN SearchTools[t + 1] ELSE "cmo_invoke"
    /\ UNCHANGED <<treq, role_cfg, secondary_allowed, tret, invoked, budget0>>

\* the cmo branch: the primary on the enriched messages (lc_messages itself
\* when no tool added to search_context)
CmoInvoke(llm_ok) ==
    /\ tpc = "cmo_invoke"
    /\ UNCHANGED nonTurnVars
    /\ LET input == IF search_context = <<>> THEN "lc_messages" ELSE "enriched"
           p     == role_cfg.primary
       IN  Invoke(p, input, llm_ok,
                  Return(Output(p, input),
                         IF role_cfg.fallback_used
                         THEN p.provider \o "/" \o p.model \o "+search[fallback]"
                         ELSE "perplexity/" \o p.model \o "+search"))
    /\ UNCHANGED <<budget, treq, role_cfg, secondary_allowed, search_context,
                   consumed, toolCalls, budget0>>

\* secondary_cfg is None or fallback_used: the primary alone
SingleInvoke(llm_ok) ==
    /\ tpc = "single"
    /\ UNCHANGED nonTurnVars
    /\ LET p == role_cfg.primary IN
       Invoke(p, "lc_messages", llm_ok,
              Return(Output(p, "lc_messages"),
                     p.provider \o "/" \o p.model \o
                       (IF role_cfg.fallback_used THEN "[fallback]" ELSE "")))
    /\ UNCHANGED <<budget, treq, role_cfg, secondary_allowed, search_context,
                   consumed, toolCalls, budget0>>

\* ensemble: the consume of the secondary, before the primary is invoked
ConsumeSecondary(store_ok) ==
    /\ tpc = "consume_secondary"
    /\ UNCHANGED nonTurnVars
    /\ LET secondary_key == _api_key_name(role_cfg.secondary) IN
       IF treq.sb
       THEN /\ Consume(secondary_key, store_ok)
            /\ secondary_allowed' = BudgetConsume(secondary_key, store_ok).ret
       ELSE /\ secondary_allowed' = TRUE
            /\ UNCHANGED <<budget, consumed>>
    /\ tpc' = "draft"
    /\ UNCHANGED <<treq, role_cfg, search_context, tret, toolCalls, invoked, budget0>>

\* variant of Draft: the secondary refines the draft even when it was denied
Draft_AlwaysRefine(llm_ok) ==
    /\ tpc = "draft"
    /\ UNCHANGED nonTurnVars
    /\ Invoke(role_cfg.primary, "lc_messages", llm_ok,
              /\ tpc' = "refine"
              /\ UNCHANGED tret)
    /\ UNCHANGED <<budget, treq, role_cfg, secondary_allowed, search_context,
                   consumed, toolCalls, budget0>>

\* ensemble: the primary's draft; returned as it is when the secondary was denied
Draft(llm_ok) ==
    /\ tpc = "draft"
    /\ UNCHANGED nonTurnVars
    /\ LET p == role_cfg.primary IN
       Invoke(p, "lc_messages", llm_ok,
              IF ~secondary_allowed
              THEN Return(Output(p, "lc_messages"),
                          p.provider \o "/" \o p.model \o "[secondary-skipped]")
              ELSE /\ tpc' = "refine"
                   /\ UNCHANGED tret)
    /\ UNCHANGED <<budget, treq, role_cfg, secondary_allowed, search_context,
                   consumed, toolCalls, budget0>>

\* ensemble: the secondary on the refine prompt built around the draft
Refine(llm_ok) ==
    /\ tpc = "refine"
    /\ UNCHANGED nonTurnVars
    /\ LET p == role_cfg.primary
           s == role_cfg.secondary
       IN  Invoke(s, "refine", llm_ok,
                  Return(Output(s, "refine"),
                         p.provider \o "/" \o p.model \o "+" \o
                           s.provider \o "/" \o s.model))
    /\ UNCHANGED <<budget, treq, role_cfg, secondary_allowed, search_context,
                   consumed, toolCalls, budget0>>

ToolOutcomes == {"results", "empty", "raised"}

TurnNext ==
    \/ \E req \in TurnRequests : TurnStart(req)
    \/ \E llm_ok \in BOOLEAN : OverrideInvoke(llm_ok)
    \/ \E store_ok \in BOOLEAN : ConsumePrimary(store_ok)
    \/ \E store_ok \in BOOLEAN : ConsumeFallback(store_ok)
    \/ \E llm_ok \in BOOLEAN : SingleInvoke(llm_ok)
    \/ \E store_ok \in BOOLEAN : ConsumeSecondary(store_ok)
    \/ \E llm_ok \in BOOLEAN : Draft(llm_ok)
    \/ \E llm_ok \in BOOLEAN : Refine(llm_ok)

ResearchNext ==
    \/ \E req \in ResearchRequests : TurnStart(req)
    \/ \E llm_ok \in BOOLEAN : OverrideInvoke(llm_ok)
    \/ \E store_ok \in BOOLEAN : ConsumePrimary(store_ok)
    \/ \E store_ok \in BOOLEAN : ConsumeFallback(store_ok)
    \/ \E t \in 1..Len(SearchTools), store_ok \in BOOLEAN, o \in ToolOutcomes :
          SearchTool(t, store_ok, o)
    \/ \E llm_ok \in BOOLEAN : CmoInvoke(llm_ok)

(***************************************************************************)
(* Persona store: /reflect (reflect_extract, reflect_update, reflect_save)  *)
(* and the knowledge_notes update of /evaluate                              *)
(***************************************************************************)
MaxOps == 3                       \* /reflect and /evaluate requests in one behaviour

NotesCap     == 15                \* [-15:] in reflect_update
EvalNotesCap == 20                \* current_notes[-20:] in evaluate

\* skills and mindsets are numbered, notes are numbered in order of creation
Skills   == 1..2
Mindsets == 1..1
\* the persona rows the requests start from: lists as stored (not necessarily
\* sorted), no notes or the 14 notes earlier reflections left
InitNoteCounts == {0, 14}
InitSkillsets  == {<<>>, <<2, 1>>}
InitMindsets   == {<<>>, <<1>>}

\* the capability whose daily record the two endpoints can touch
ReflectApis == {"anthropic_sonnet"}

\* LLMProviderConfig(provider="anthropic", model="claude-sonnet-4-5")
ReflectDefaultCfg == Cfg("anthropic", "claude-sonnet-4-5")

ToSet(s) == {s[i] : i \in DOMAIN s}

\* sorted(S) for a set of numbers
RECURSIVE Sorted(_)
Sorted(S) ==
    IF S = {} THEN <<>>
    ELSE LET lo == CHOOSE x \in S : \A y \in S : x <= y
         IN  <<lo>> \o Sorted(S \ {lo})

\* s[-n:]
LastN(s, n) == IF Len(s) <= n THEN s ELSE SubSeq(s, Len(s) - n + 1, Len(s))

EmptyDiff == [skills |-> {}, mindsets |-> {}, notes |-> <<>>]

\* what the extraction may return: new_skills_demonstrated + strengthened_skills,
\* new_mindsets_demonstrated, updated_knowledge_notes (new texts f, f + 1 and
\* texts the persona holds already); unparsable JSON gives the empty diff
NoteOptions(en, f) ==
    {<<>>, <<f>>, <<f, f + 1>>}
    \cup (IF en = <<>> THEN {} ELSE {<<en[1]>>, <<en[Len(en)], f>>})

Diffs(en, f) ==
    [skills : SUBSET Skills, mindsets : SUBSET Mindsets, notes : NoteOptions(en, f)]

NoReflect == [character |-> [skillsets |-> <<>>, mindsets |-> <<>>,
                             knowledge_notes |-> <<>>],
              override |-> FALSE, diff_summary |-> EmptyDiff,
              skills_before |-> [skillsets |-> <<>>, mindsets |-> <<>>,
                                 knowledge_notes |-> <<>>],
              skills_after  |-> [skillsets |-> <<>>, mindsets |-> <<>>,
                                 knowledge_notes |-> <<>>]]

\* reflect_update / update_profile_node
reflect_update(state) ==
    LET char == state.character
        diff == state.diff_summary
        sk   == ToSet(char.skillsets) \cup diff.skills
        ms   == ToSet(char.mindsets) \cup diff.mindsets
        nn   == diff.notes
        en   == char.knowledge_notes
        merged == IF nn # <<>>
                  THEN LastN(en \o SelectSeq(nn, LAMBDA x : x \notin ToSet(en)), NotesCap)
                  ELSE en
        after == [skillsets |-> Sorted(sk), mindsets |-> Sorted(ms),
                  knowledge_notes |-> merged]
    IN  [state EXCEPT !.skills_before = char, !.skills_after = after,
                      !.character = after]

ReflectInit ==
    /\ persona \in [skillsets : InitSkillsets, mindsets : InitMindsets,
                    knowledge_notes : {[i \in 1..c |-> i] : c \in InitNoteCounts}]
    /\ rpc = "idle"
    /\ rstate = NoReflect
    /\ rret = "none"
    /\ rinvoked = <<>>
    /\ rbudget0 = <<>>
    /\ noteSeq = 1 + Len(persona.knowledge_notes)
    /\ ops = 0

\* the persona store is not used
ReflectIdle ==
    /\ persona = [skillsets |-> <<>>, mindsets |-> <<>>, knowledge_notes |-> <<>>]
    /\ rpc = "idle"
    /\ rstate = NoReflect
    /\ rret = "none"
    /\ rinvoked = <<>>
    /\ rbudget0 = <<>>
    /\ noteSeq = 1
    /\ ops = 0

\* POST /reflect: fetch_char, the messages to analyse (404 when there are
\* none), the initial ReflectState; the load node returns {}
ReflectStart(override, has_msgs) ==
    /\ rpc = "idle"
    /\ ops < MaxOps
    /\ UNCHANGED <<nonReflectVars, budget>>
    /\ ops' = ops + 1
    /\ rbudget0' = budget
    /\ rinvoked' = <<>>
    /\ IF has_msgs
       THEN /\ rstate' = [NoReflect EXCEPT !.character = persona, !.override = override]
            /\ rpc' = "extract"
            /\ rret' = "running"
       ELSE /\ rret' = "not found"
            /\ UNCHANGED <<rstate, rpc>>
    /\ UNCHANGED <<persona, noteSeq>>

\* reflect_extract: build_llm(caller cfg or Claude) and one llm.invoke, which
\* returns a diff (the empty one when the reply is no JSON) or raises
ReflectExtract(llm_ok, diff) ==
    /\ rpc = "extract"
    /\ UNCHANGED <<nonReflectVars, budget>>
    /\ rinvoked' = Append(rinvoked, IF rstate.override THEN CallerLlm ELSE ReflectDefaultCfg)
    /\ IF llm_ok
       THEN /\ rstate' = [rstate EXCEPT !.diff_summary = diff]
            /\ rpc' = "update"
            /\ UNCHANGED rret
       ELSE /\ rpc' = "idle"
            /\ rret' = "llm error"
            /\ UNCHANGED rstate
    /\ noteSeq' = IF llm_ok /\ \E i \in DOMAIN diff.notes : diff.notes[i] >= noteSeq
                  THEN 1 + (CHOOSE x \in ToSet(diff.notes) : \A y \in ToSet(diff.notes) : y <= x)
                  ELSE noteSeq
    /\ UNCHANGED <<persona, rbudget0, ops>>

\* the update node
ReflectUpdate ==
    /\ rpc = "update"
    /\ UNCHANGED <<nonReflectVars, budget>>
    /\ rstate' = reflect_update(rstate)
    /\ rpc' = "save"
    /\ UNCHANGED <<persona, rret, rinvoked, rbudget0, noteSeq, ops>>

\* reflect_save: the row of the character is overwritten with the state's
\* personality and knowledge_notes; the pass is over
ReflectSave ==
    /\ rpc = "save"
    /\ UNCHANGED <<nonReflectVars, budget>>
    /\ persona' = rstate.character
    /\ rpc' = "idle"
    /\ rret' = "ok"
    /\ UNCHANGED <<rstate, rinvoked, rbudget0, noteSeq, ops>>

\* POST /evaluate with task outputs: the budget of anthropic_sonnet is
\* consumed, the evaluation LLM is invoked (a failure raises), and when the
\* reply carries strategy_updates a note is appended and the last 20 are kept
Evaluate(store_ok, llm_ok, strategy_updates) ==
    /\ ops < MaxOps
    /\ UNCHANGED nonReflectVars
    /\ ops' = ops + 1
    /\ budget' = BudgetConsume("anthropic_sonnet", store_ok).table
    /\ IF llm_ok /\ strategy_updates
       THEN /\ persona' = [persona EXCEPT !.knowledge_notes =
                              LastN(Append(persona.knowledge_notes, noteSeq), EvalNotesCap)]
            /\ noteSeq' = noteSeq + 1
       ELSE UNCHANGED <<persona, noteSeq>>
    /\ UNCHANGED <<rpc, rstate, rret, rinvoked, rbudget0>>

ReflectNext ==
    \/ \E override \in BOOLEAN, has_msgs \in BOOLEAN : ReflectStart(override, has_msgs)
    \/ \E llm_ok \in BOOLEAN, diff \in Diffs(rstate.character.knowledge_notes, noteSeq) :
          ReflectExtract(llm_ok, diff)
    \/ ReflectUpdate
    \/ ReflectSave
    \/ \E store_ok \in BOOLEAN, llm_ok \in BOOLEAN, su \in BOOLEAN :
          Evaluate(store_ok, llm_ok, su)

\* a batch of at most MaxPolled characters, polled while it runs
JobPollNext ==
    \/ \E chars \in SeqsUpTo(SubmitNames, MaxPolled) : TrainAllStart(chars)
    \/ \E p \in 1..CharCap, o \in BackendOutcomes : TrainOneReturn(p, o)
    \/ \E p \in 1..CharCap : TrainOneRaise(p)
    \/ CollectRead
    \/ CollectWrite
    \/ Finalize
    \/ Poll

\* every train_one call ends (the POST has a timeout of 3600 s) and the
\* background thread keeps running while it can
JobFairness ==
    /\ \A p \in 1..CharCap :
          WF_vars(TrainOneRaise(p) \/ \E o \in BackendOutcomes : TrainOneReturn(p, o))
    /\ WF_vars(CollectRead)
    /\ WF_vars(CollectWrite)
    /\ WF_vars(Finalize)

\* a component that is not running: its variables at their initial values
BudgetIdle == BudgetInitWith({})

InitJob == JobInit /\ BudgetIdle /\ AngleInit /\ ChatInit /\ TurnIdle /\ ReflectIdle

SpecJob == InitJob /\ [][JobNext]_vars

SpecJobPoll == InitJob /\ [][JobPollNext]_vars

SpecJobLive == InitJob /\ [][JobPollNext]_vars /\ JobFairness

InitBudget == BudgetInit /\ JobInit /\ AngleInit /\ ChatInit /\ TurnIdle /\ ReflectIdle

SpecBudget == InitBudget /\ [][BudgetNext]_vars

\* the same governor started from records whose limits are all positive
InitBudgetRace == BudgetInitWith(PositiveLimits) /\ JobInit /\ AngleInit /\ ChatInit /\ TurnIdle /\ ReflectIdle

InitAngle == AngleInit /\ JobInit /\ BudgetIdle /\ ChatInit /\ TurnIdle /\ ReflectIdle

SpecAngle == InitAngle /\ [][AngleNext]_vars

InitChat == ChatInit /\ JobInit /\ BudgetIdle /\ AngleInit /\ TurnIdle /\ ReflectIdle

SpecChat == InitChat /\ [][ChatNext]_vars

InitDialogue == ChatInit /\ JobInit /\ BudgetIdle /\ AngleInit /\ TurnIdle /\ ReflectIdle

SpecDialogue == InitDialogue /\ [][DialogueNext]_vars

SpecBudgetRace == InitBudgetRace /\ [][BudgetNext]_vars

\* graph.invoke runs the graph in the request's own coroutine: the router and
\* the node it selects run one after the other without waiting for anything
\* but the LLM call of the node, which returns a reply or raises
DialogueFairness ==
    /\ WF_vars(Router)
    /\ WF_vars(\E llm_ok \in BOOLEAN : CharacterTurn(llm_ok))

SpecDialogueLive == InitDialogue /\ [][DialogueNext]_vars /\ DialogueFairness

InitReflect == ReflectInit /\ TurnIdle /\ TurnBudgetInit(ReflectApis) /\ JobInit /\ AngleInit /\ ChatInit

SpecReflect == InitReflect /\ [][ReflectNext]_vars

InitTurn == TurnIdle /\ TurnBudgetInit(TurnApis) /\ JobInit /\ AngleInit /\ ChatInit /\ ReflectIdle

SpecTurn == InitTurn /\ [][TurnNext]_vars

InitResearch == TurnIdle /\ TurnBudgetInit(ResearchApis) /\ JobInit /\ AngleInit /\ ChatInit /\ ReflectIdle

SpecResearch == InitResearch /\ [][ResearchNext]_vars

(***************************************************************************)
(* Claims                                                                   *)
(***************************************************************************)

\* C1: in every state where the job's status is "done", the results list is
\* as long as the capped characters list and its p-th entry is the result of
\* the p-th submitted character (each character once, in submission order),
\* whatever order the workers completed in.
C1_ResultsInSubmissionOrder ==
    jobsDict.status = "done" =>
        /\ Len(jobsDict.results) = Len(characters)
        /\ \A p \in 1..Len(jobsDict.results) :
              /\ jobsDict.results[p].idx = p - 1
              /\ jobsDict.results[p].name = jobsDict.characters[p].name

\* C2: for one (capability, date), the number of _budget_consume calls that
\* returned True while the store was reachable never exceeds the daily_limit
\* of that record, also with concurrent callers.
C2_GrantsWithinLimit ==
    \A k \in Apis \X Days :
        budget[k] # NoRow => granted[k] <= budget[k].daily_limit

\* C3: in every budget record, calls_today never exceeds daily_limit, after
\* any interleaving of _budget_consume calls including the seeding of the
\* day's first record from the prior day's limit or the default.
C3_CallsWithinLimit ==
    \A k \in Apis \X Days :
        budget[k] # NoRow => budget[k].calls_today <= budget[k].daily_limit

AngleEvents == SelectSeq(events, LAMBDA e : e.event = "angle")

\* the outcomes of the quality checks behind an angle event
Outcomes(ev) == [q \in 1..Len(ev.checks) |-> ev.checks[q].outcome]

FailReasons == {"wrong angle", "subject not visible", "wrong angle; subject not visible"}

C6_SecondImageKept ==
    (lastEvent.event = "angle" /\ Outcomes(lastEvent) = <<"fail", "fail">>) =>
        /\ lastEvent.image.attempt = 1
        /\ lastEvent.qc_passed = FALSE
        /\ lastEvent.qc_reason \in FailReasons

\* C6 (amended): if both attempts of a unit fail the quality check, the image
\* yielded is the one attempt 1 produced, reported with attempt 1's seed,
\* with qc_passed = false and the non-empty failure reason of attempt 2's check.
C6_FirstImageKept ==
    (lastEvent.event = "angle" /\ Outcomes(lastEvent) = <<"fail", "fail">>) =>
        /\ lastEvent.image.attempt = 0
        /\ lastEvent.image.unit = lastEvent.unit
        /\ lastEvent.image.seed = item.seed + lastEvent.angle_idx * SeedStride
        /\ lastEvent.seed = lastEvent.image.seed
        /\ lastEvent.qc_passed = FALSE
        /\ lastEvent.qc_reason \in FailReasons
        /\ lastEvent.qc_reason = lastEvent.checks[2].reason

\* C6 witness: both checks failed, for different reasons
C6_Witness ==
    /\ lastEvent.event = "angle"
    /\ Outcomes(lastEvent) = <<"fail", "fail">>
    /\ lastEvent.checks[1].reason = "wrong angle"
    /\ lastEvent.checks[2].reason = "subject not visible"

\* C7: if attempt 1 of a unit fails the quality check and attempt 2 passes,
\* exactly one angle event is yielded for the unit, with qc_passed = true and
\* seed = base_seed + angle_idx * 37 + 1000.
C7_RetryPassed ==
    (lastEvent.event = "angle" /\ Outcomes(lastEvent) = <<"fail", "pass">>) =>
        /\ evFor[lastEvent.unit] = 1
        /\ lastEvent.qc_passed = TRUE
        /\ lastEvent.seed = item.seed + lastEvent.angle_idx * 37 + 1000

\* C7 witness: angle 8 was yielded after a failed and a passed check
C7_Witness ==
    /\ lastEvent.event = "angle"
    /\ Outcomes(lastEvent) = <<"fail", "pass">>
    /\ lastEvent.angle_idx = 8
    /\ item.seed = 42

\* C8: within one conversation the sequence_number values of the stored
\* messages are pairwise distinct and increase in append order.
C8_SequenceNumbersOrdered ==
    \A cid \in DOMAIN msgTable :
        \A i, j \in 1..Len(msgTable[cid]) :
            i < j => msgTable[cid][i].sequence_number < msgTable[cid][j].sequence_number

\* number of assistant messages in a message list
AssistantCount(msgs) == Cardinality({k \in 1..Len(msgs) : msgs[k].role = "assistant"})

C10_ExhaustedDenied ==
    [][\A c \in Callers :
          LET row == budget[<<cloc[c].api_name, cloc[c].today>>] IN
          ( /\ cpc[c] = "select"
            /\ cpc'[c] # "select"
            /\ failOpens' = failOpens
            /\ row # NoRow
            /\ row.calls_today >= row.daily_limit )
          => ( /\ cret'[c] = "False"
               /\ cpc'[c] = "idle"
               /\ budget' = budget )]_vars

\* C10 witness: a call was denied on a record used up to a positive limit
C10_Witness ==
    \E c \in Callers, k \in Apis \X Days :
        /\ cret[c] = "False"
        /\ budget[k] # NoRow
        /\ budget[k].daily_limit > 0
        /\ budget[k].calls_today = budget[k].daily_limit

\* the configs resolve_role_llm gives the character of the turn
Base == resolve_role_llm(treq.roles)

\* resolve_role_llm_with_budget has returned in this turn
Resolved == treq.caller_llm = NoCfg /\ treq.sb /\ role_cfg # NoRoleCfg

HasFallback == _api_key_name(Base.primary) \in DOMAIN FALLBACK_LLM

TurnOver == tpc \in {"returned", "raised"}

\* C11: when the consume of the primary is denied, resolve consumes the
\* fallback of the primary, if one is configured, and returns the fallback
\* config with no secondary and fallback_used = true, whatever the consume of
\* the fallback returned; with no fallback configured it returns the primary
\* and secondary unchanged with fallback_used = false; the turn raises nothing
\* before an LLM is invoked.
C11_DeniedPrimaryResolves ==
    /\ (Resolved /\ ~consumed[1].ret /\ HasFallback) =>
          /\ Len(consumed) = 2
          /\ consumed[2].api = _api_key_name(FALLBACK_LLM[_api_key_name(Base.primary)])
          /\ role_cfg = [primary |-> FALLBACK_LLM[_api_key_name(Base.primary)],
                         secondary |-> NoCfg, role |-> Base.role, fallback_used |-> TRUE]
    /\ (Resolved /\ ~consumed[1].ret /\ ~HasFallback) =>
          role_cfg = WithFallbackUsed(Base, FALSE)
    /\ (treq.caller_llm = NoCfg /\ treq.sb /\ consumed # <<>> /\ ~consumed[1].ret) =>
          /\ consumed[1].api = _api_key_name(Base.primary)
          /\ tpc = "raised" => invoked # <<>>
          /\ tpc # "consume_fallback" => role_cfg # NoRoleCfg

\* C11 witness: the primary was denied and the fallback's own record is
\* exhausted too; the turn went on with the fallback
C11_Witness ==
    /\ Resolved
    /\ Len(consumed) = 2
    /\ ~consumed[1].ret
    /\ ~consumed[2].ret
    /\ role_cfg.fallback_used
    /\ tpc = "returned"

\* C12: with an explicit caller_llm the turn invokes exactly that config,
\* once, on the caller's messages, calls _budget_consume not at all and leaves
\* the table api_budget as it found it.
C12_OverrideBypassesBudget ==
    treq.caller_llm # NoCfg =>
        /\ consumed = <<>>
        /\ budget = budget0
        /\ toolCalls = <<>>
        /\ invoked \in {<<>>, <<[cfg |-> treq.caller_llm, input |-> "lc_messages"]>>}
        /\ TurnOver => invoked # <<>>
        /\ tpc = "returned" =>
              tret.reply = Output(treq.caller_llm, "lc_messages")

\* C12 witness: an override turn of a ceo returned while the record of the
\* role's primary is exhausted
C12_Witness ==
    /\ treq.caller_llm = CallerLlm
    /\ treq.roles = <<"ceo">>
    /\ treq.sb
    /\ budget[<<"openai_gpt4o", today>>] # NoRow
    /\ tpc = "returned"

\* C13: a _budget_consume call in which a store request raises returns True
\* and leaves the table as it is.
C13_FailOpen ==
    [][\A c \in Callers :
          (failOpens' = failOpens + 1 /\ cpc'[c] # cpc[c]) =>
              /\ cret'[c] = "True"
              /\ cpc'[c] = "idle"
              /\ budget' = budget]_vars

\* C13 witness: a call returned True although nothing was granted from a record
C13_Witness ==
    /\ failOpens = 1
    /\ \E c \in Callers : cret[c] = "True"
    /\ \A k \in Apis \X Days : granted[k] = 0

\* the angle event of the unit the loop has just left
UnitYielded == lastEvent.event = "angle" /\ apc = "unit" /\ upos = lastEvent.unit

\* C14 (as claimed): if GEMINI_API_KEY is absent or a quality check of the
\* unit raised, the unit is accepted on attempt 1 with qc_passed = true after
\* exactly one generation.
C14_AcceptedOnFirstAttempt ==
    (UnitYielded /\ (~item.gemini_key
                       \/ \E q \in 1..Len(lastEvent.checks) :
                             lastEvent.checks[q].outcome = "error")) =>
        /\ gens = 1
        /\ lastEvent.qc_passed
        /\ lastEvent.image.attempt = 0

\* C14 (amended): if GEMINI_API_KEY is absent or the quality check of attempt 1
\* raised, the unit is accepted on attempt 1 with qc_passed = true after
\* exactly one generation; if attempt 1 failed the check and the check of
\* attempt 2 raised, the unit is accepted with the image of attempt 2, with
\* qc_passed = true, after two generations.
C14_AcceptedOnCheckedAttempt ==
    /\ (UnitYielded /\ (~item.gemini_key \/ Outcomes(lastEvent) = <<"error">>)) =>
          /\ gens = 1
          /\ lastEvent.qc_passed
          /\ lastEvent.image.attempt = 0
          /\ lastEvent.qc_reason = (IF item.gemini_key THEN "qc_error" ELSE "qc_disabled")
    /\ (UnitYielded /\ Len(lastEvent.checks) = 2 /\ lastEvent.checks[2].outcome = "error") =>
          /\ lastEvent.checks[1].outcome = "fail"
          /\ gens = 2
          /\ lastEvent.qc_passed
          /\ lastEvent.image.attempt = 1
          /\ lastEvent.qc_reason = "qc_error"
    /\ UnitYielded =>
          \A q \in 1..Len(lastEvent.checks) :
              lastEvent.checks[q].outcome = "error" => q = Len(lastEvent.checks)

\* C14 witness: the check of attempt 1 failed, the check of attempt 2 raised
C14_Witness ==
    /\ UnitYielded
    /\ Outcomes(lastEvent) = <<"fail", "error">>
    /\ gens = 2

Terminal(e) == e.event \in {"done", "error"}

\* events 2 .. Len(events) - 1 are the angle events of the first units, in order
AnglePrefix ==
    /\ Len(events) - 2 <= Len(angle_subset)
    /\ \A k \in 2..(Len(events) - 1) :
          /\ events[k].event = "angle"
          /\ events[k].angle_idx = angle_subset[k - 1]

C16_EventuallyDone ==
    (jobsDict.status = "running") ~> (jobsDict.status = "done")

\* C17: a poll returns the status and the results the job record holds at that
\* moment; from one poll of the job to the next the number of results does not
\* decrease and a status "done" does not go back to "running".
C17_PollsMonotone ==
    [][/\ (poll' # poll /\ jobsDict # NoJob) =>
             /\ poll'.ok
             /\ poll'.status = jobsDict.status
             /\ poll'.results = jobsDict.results
       /\ (poll.ok /\ poll'.ok) =>
             /\ Len(poll'.results) >= Len(poll.results)
             /\ poll.status = "done" => poll'.status = "done"]_vars

\* C17 witness: a poll returned one result of a running batch of two, which
\* is done by now
C17_Witness ==
    /\ poll.ok
    /\ poll.status = "running"
    /\ Len(poll.results) = 1
    /\ jobsDict.status = "done"
    /\ Len(jobsDict.results) = 2

\* C18: when resolve substituted the fallback, the turn consumes the primary
\* and the fallback and nothing else, and makes one LLM invocation, of the
\* fallback config: the role's secondary is neither consumed nor invoked.
C18_FallbackIsSingle ==
    role_cfg.fallback_used =>
        /\ Len(consumed) = 2
        /\ \A i \in 1..Len(consumed) :
              Base.secondary # NoCfg => consumed[i].api # _api_key_name(Base.secondary)
        /\ invoked \in {<<>>, <<[cfg |-> role_cfg.primary, input |-> "lc_messages"]>>}
        /\ TurnOver => Len(invoked) = 1
        /\ tpc = "returned" => tret.reply = Output(role_cfg.primary, "lc_messages")

\* C18 witness: a ceo turn (secondary configured) returned from the fallback
C18_Witness ==
    /\ role_cfg.fallback_used
    /\ Base.secondary # NoCfg
    /\ tpc = "returned"
    /\ tret.label = "openai/gpt-4o-mini[fallback]"

\* the turn is on the ensemble path and the consume of the secondary is done
Ensemble ==
    /\ treq.caller_llm = NoCfg
    /\ role_cfg.secondary # NoCfg
    /\ ~role_cfg.fallback_used
    /\ tpc \in {"draft", "refine", "returned", "raised"}

PrimaryCall   == [cfg |-> role_cfg.primary, input |-> "lc_messages"]
SecondaryCall == [cfg |-> role_cfg.secondary, input |-> "refine"]

\* C19: on the ensemble path, if the consume of the secondary is denied the
\* secondary is not invoked and the reply is the primary's draft, labelled
\* [secondary-skipped]; if it is allowed the secondary is invoked once, after
\* the primary, and its output is the reply.
C19_SecondaryGated ==
    Ensemble =>
        /\ treq.sb => /\ consumed[Len(consumed)].api = _api_key_name(role_cfg.secondary)
                      /\ consumed[Len(consumed)].ret = secondary_allowed
        /\ ~treq.sb => secondary_allowed
        /\ ~secondary_allowed =>
              /\ invoked \in {<<>>, <<PrimaryCall>>}
              /\ tpc = "returned" =>
                    /\ invoked = <<PrimaryCall>>
                    /\ tret.reply = Output(role_cfg.primary, "lc_messages")
                    /\ tret.label = role_cfg.primary.provider \o "/" \o
                                      role_cfg.primary.model \o "[secondary-skipped]"
        /\ secondary_allowed =>
              /\ invoked \in {<<>>, <<PrimaryCall>>, <<PrimaryCall, SecondaryCall>>}
              /\ tpc = "returned" =>
                    /\ invoked = <<PrimaryCall, SecondaryCall>>
                    /\ tret.reply = Output(role_cfg.secondary, "refine")

\* C19 witness: a turn returned the draft because the secondary was denied
C19_Witness ==
    /\ Ensemble
    /\ ~secondary_allowed
    /\ tpc = "returned"
    /\ tret.label = "openai/gpt-4o[secondary-skipped]"

ToolPos(tool) == CHOOSE t \in 1..Len(SearchTools) : SearchTools[t] = tool

\* the research turn is through with _cmo_enrich
Enriched ==
    /\ treq.caller_llm = NoCfg
    /\ role_cfg.role = "cmo"
    /\ tpc \in {"cmo_invoke", "returned", "raised"}

\* the consume of the tool returned True
ToolAllowed(tool) ==
    \E i \in 1..Len(consumed) : consumed[i] = [api |-> tool, ret |-> TRUE]

\* C20: in a research turn the search tools are consumed and called in the
\* order serpapi, firecrawl, apify; a tool is called only if its consume
\* returned True and its credential is present, and every tool for which
\* both hold (and the query is not empty) is called whatever the earlier
\* tools did; the turn raises nothing before the LLM is invoked, and the LLM
\* is invoked once.
C20_ToolsGatedAndIsolated ==
    /\ \A i, j \in 1..Len(toolCalls) :
          i < j => ToolPos(toolCalls[i].tool) < ToolPos(toolCalls[j].tool)
    /\ \A i \in 1..Len(toolCalls) :
          /\ toolCalls[i].tool \in treq.keys
          /\ ToolAllowed(toolCalls[i].tool)
    /\ (treq.caller_llm = NoCfg /\ tpc = "raised") => invoked # <<>>
    /\ Enriched =>
          /\ treq.sb =>
                \A t \in 1..Len(SearchTools) :
                    \E i \in 1..Len(consumed) :
                        /\ consumed[i].api = SearchTools[t]
                        /\ \A j \in 1..Len(consumed) :
                              consumed[j].api = SearchTools[t] => j = i
                        /\ t > 1 => \E h \in 1..(i - 1) : consumed[h].api = SearchTools[t - 1]
          /\ \A t \in 1..Len(SearchTools) :
                (SearchTools[t] \in treq.keys /\ treq.user_query /\ ToolAllowed(SearchTools[t]))
                    => \E i \in 1..Len(toolCalls) : toolCalls[i].tool = SearchTools[t]
          /\ TurnOver => Len(invoked) = 1

\* C20 witness: serpapi failed, firecrawl was denied, apify was called, and
\* the LLM replied
C20_Witness ==
    /\ Enriched
    /\ tpc = "returned"
    /\ treq.sb
    /\ [tool |-> "serpapi", outcome |-> "raised"] \in {toolCalls[i] : i \in 1..Len(toolCalls)}
    /\ [api |-> "firecrawl", ret |-> FALSE] \in {consumed[i] : i \in 1..Len(consumed)}
    /\ [tool |-> "apify", outcome |-> "results"] \in {toolCalls[i] : i \in 1..Len(toolCalls)}

C22_RejectedBeforeStart ==
    (dpc # "idle" /\ (dreq.n < 2 \/ dreq.n > 8)) =>
        /\ dpc = "rejected"
        /\ dstate = NoState
        /\ dresp = NoResponse
        /\ msgTable = <<>>
        /\ convTable = <<>>

\* a request with more ids than allowed was rejected
C22_Witness ==
    /\ dpc = "rejected"
    /\ dreq.n > 8
    /\ dstate.messages = <<>>

\* the row of the character is the one the last reflection pass saved
PassSaved == rret = "ok" /\ persona = rstate.character

\* the notes the pass started from come before the notes it added
OldNotesFirst(notes, before) ==
    \A i \in DOMAIN notes, j \in DOMAIN notes :
        (i < j /\ notes[j] \in ToSet(before)) => notes[i] \in ToSet(before)

\* C23: after a reflection pass the stored skillsets and mindsets are the
\* union of those before the pass with the extracted diff (so supersets of
\* them), and the stored knowledge_notes are at most 15, the notes held
\* before the pass ordered before the added ones
C23_ReflectionMerge ==
    PassSaved =>
        LET before == rstate.skills_before
            diff   == rstate.diff_summary
        IN  /\ ToSet(persona.skillsets) = ToSet(before.skillsets) \cup diff.skills
            /\ ToSet(persona.mindsets) = ToSet(before.mindsets) \cup diff.mindsets
            /\ Len(persona.knowledge_notes) <= 15
            /\ OldNotesFirst(persona.knowledge_notes, before.knowledge_notes)

\* C24: a reflection LLM call made without a caller override went through
\* _budget_consume for anthropic_sonnet: it was not made on a record that was
\* exhausted when the request started, and today's record counts it
C24_ReflectionBudgetGated ==
    (rinvoked # <<>> /\ ~rstate.override) =>
        LET k      == <<"anthropic_sonnet", today>>
            before == rbudget0[k]
        IN  /\ before # NoRow => before.calls_today < before.daily_limit
            /\ budget[k] # NoRow
            /\ budget[k].calls_today >=
                   1 + (IF before = NoRow THEN 0 ELSE before.calls_today)

Assistants == SelectSeq(dstate.messages, LAMBDA x : x.role = "assistant")

C27_SecondaryConsumedAfterDraft ==
    (Ensemble /\ treq.sb /\ tpc = "raised" /\ invoked = <<PrimaryCall>>) =>
        LET secondary_key == _api_key_name(role_cfg.secondary) IN
        /\ Len(consumed) = 1
        /\ secondary_key # _api_key_name(role_cfg.primary) =>
               budget[<<secondary_key, today>>] = budget0[<<secondary_key, today>>]

\* C28: a research turn leaves today's budget record of a search tool as it
\* was when the turn started unless the tool is called in the turn: a tool
\* whose credential is absent, or any tool when there is no user query, has
\* its record (calls_today included) unchanged
C28_ToolBudgetOnlyWhenCalled ==
    Enriched =>
        \A t \in 1..Len(SearchTools) :
            (SearchTools[t] \notin treq.keys \/ ~treq.user_query) =>
                budget[<<SearchTools[t], today>>] = budget0[<<SearchTools[t], today>>]

\* C29: when an LLM call fails in a turn the request aborts with nothing of
\* the conversation stored and no response built; a conversation row and its
\* messages exist only once the request has run every turn and responded
C29_AbortPersistsNothing ==
    /\ dpc = "aborted" =>
          /\ msgTable = <<>>
          /\ convTable = <<>>
          /\ dresp = NoResponse
    /\ (msgTable # <<>> \/ convTable # <<>>) =>
          /\ dpc = "responded"
          /\ dreq.save_to_db
          /\ router_fn(dstate) = "end"

\* a request that asked for saving failed after seeds and turns were in the state
C29_Witness ==
    /\ dpc = "aborted"
    /\ dreq.save_to_db
    /\ dreq.topic
    /\ AssistantCount(dstate.messages) >= 3
    /\ msgTable = <<>>

\* C30: every angle event reports the seed and the strength of the generation
\* attempt that produced the image it carries, whatever the two quality
\* checks answered
C30_EventDescribesEmittedImage ==
    lastEvent.event = "angle" =>
        /\ lastEvent.image # NoImage
        /\ lastEvent.seed = lastEvent.image.seed
        /\ lastEvent.strength = lastEvent.image.strength

====
